---------------------------- MODULE Spec2Model ----------------------------
(***************************************************************************)
(* A model of the YOLO label generator: the project store (lib/store.ts),  *)
(* the annotation canvas (components/CanvasStage.tsx) and the YOLO codec   *)
(* (lib/yolo.ts).                                                          *)
(*                                                                         *)
(* Numbers.  The program computes with IEEE doubles.  The model computes   *)
(* with exact rationals <<n, d>> (d > 0, lowest terms), so a coordinate is *)
(* the real number the double approximates.  The one place where the       *)
(* approximation decides a result, a decimal tie in toFixed(6), is a       *)
(* nondeterministic choice (see ToFixedChoices).                           *)
(*                                                                         *)
(* Text.  A string is a sequence of one-character strings, so formatting   *)
(* and parsing are real conversions between numbers and characters.        *)
(***************************************************************************)
EXTENDS Integers, Sequences, FiniteSets, TLC

VARIABLES
    \* ---- store (lib/store.ts, useLabelStore) ----
    images,             \* currentProject.images  : Seq of [id, width, height, status, cloudinary]
    bboxes,             \* currentProject.bboxes  : Seq of BBox
    classes,            \* currentProject.classes : Seq of [id, name]
    currentImageId,     \* currentImageId (NoId = null)
    toolState,          \* toolState: [mode, selectedBBoxId, selectedClassId, isDrawing]
    viewport,           \* viewport: [scale, x, y]
    hasUnsavedChanges,  \* hasUnsavedChanges
    updatedAt,          \* currentProject.updatedAt, on a logical clock
    nextBBoxId,         \* stands for the fresh `bbox_${Date.now()}_${random}` ids
    \* ---- canvas component state (CanvasStage useState) ----
    isDrawing,          \* const [isDrawing, setIsDrawing]
    startPoint,         \* const [startPoint, setStartPoint]   (NoPoint = null)
    currentRect,        \* const [currentRect, setCurrentRect] (NoRect = null)
    \* ---- canvas: image loading and the Konva stage ----
    loads,              \* the Image objects the load effect created: Seq of [image, handlers, state]
    konvaImage,         \* const [konvaImage, setKonvaImage]: index into loads (0 = null)
    imageRef,           \* imageRef.current: index into loads (0 = null)
    container,          \* props containerWidth, containerHeight: [width, height]
    stagePos,           \* the stage node's own position while the x / y props are undefined
    wheels,             \* the number of zoom events (wheel, toolbar) handled so far
    \* ---- network and persistence ----
    online,             \* whether a fetch reaches the server at all (it throws when not)
    outbox,             \* /api/annotations requests in flight: set of [method, box]
    serverAnnotations,  \* the server's annotations collection, newest first
    fetch,              \* the GET of loadAnnotationsFromServer: [phase, annotations]
    save,               \* the saveToIndexedDB calls in flight: Seq of [phase, project]
    isSaving,           \* the store's isSaving flag
    currentProjectId,   \* currentProject.id
    fetchedProjectImages, \* the module's fetchedProjectImages set of project ids
    imageFetches,       \* the /api/images requests in flight: Seq of [pid]
    \* ---- codec run (lib/yolo.ts) ----
    codec,              \* [phase, bboxes, imgWidth, imgHeight, content, parsed]
    \* ---- history ----
    lastOp              \* the handler that produced this state, with its arguments

vars == <<images, bboxes, classes, currentImageId, toolState, viewport,
          hasUnsavedChanges, updatedAt, nextBBoxId, isDrawing, startPoint, currentRect,
          loads, konvaImage, imageRef, container, stagePos, wheels,
          online, outbox, serverAnnotations, fetch, save, isSaving,
          currentProjectId, fetchedProjectImages, imageFetches,
          codec, lastOp>>

storeVars  == <<images, bboxes, classes, currentImageId, toolState, viewport,
                hasUnsavedChanges, updatedAt, nextBBoxId>>
canvasVars == <<isDrawing, startPoint, currentRect>>
loadVars   == <<loads, konvaImage, imageRef>>
projVars   == <<currentProjectId, fetchedProjectImages, imageFetches>>
netVars    == <<online, serverAnnotations, fetch, save, isSaving, projVars>>
sideVars   == <<loadVars, container, wheels, netVars>>

-----------------------------------------------------------------------------
(***************************************************************************)
(* Exact rational arithmetic: the real numbers behind the doubles.         *)
(***************************************************************************)
Abs(n) == IF n < 0 THEN -n ELSE n

RECURSIVE GCD(_, _)
GCD(a, b) == IF b = 0 THEN a ELSE GCD(b, a % b)

Rat(n, d) ==
    LET g == GCD(Abs(n), Abs(d))
        s == IF d < 0 THEN -1 ELSE 1
    IN  <<(s * n) \div g, (s * d) \div g>>

I(n) == <<n, 1>>

RAdd(a, b) ==
    LET g == GCD(a[2], b[2])
    IN  Rat(a[1] * (b[2] \div g) + b[1] * (a[2] \div g), (a[2] \div g) * b[2])

RNeg(a) == <<-a[1], a[2]>>

RSub(a, b) == RAdd(a, RNeg(b))

RMul(a, b) ==
    LET g1 == GCD(Abs(a[1]), b[2])
        g2 == GCD(Abs(b[1]), a[2])
    IN  Rat((a[1] \div g1) * (b[1] \div g2), (a[2] \div g2) * (b[2] \div g1))

RDiv(a, b) ==
    IF b[1] < 0 THEN RMul(RNeg(a), <<b[2], -b[1]>>) ELSE RMul(a, <<b[2], b[1]>>)

RLe(a, b) ==
    LET g == GCD(a[2], b[2])
    IN  a[1] * (b[2] \div g) <= b[1] * (a[2] \div g)

RLt(a, b) == ~RLe(b, a)

RAbs(a) == <<Abs(a[1]), a[2]>>

\* Math.min / Math.max
MathMin(a, b) == IF RLe(a, b) THEN a ELSE b
MathMax(a, b) == IF RLe(a, b) THEN b ELSE a

\* utils: clamp(value, min, max) = Math.min(Math.max(value, min), max)
clamp(value, min, max) == MathMin(MathMax(value, min), max)

-----------------------------------------------------------------------------
(***************************************************************************)
(* Text: characters, decimal digits, split and trim.                       *)
(***************************************************************************)
NL == "\n"
SP == " "

Digits == <<"0", "1", "2", "3", "4", "5", "6", "7", "8", "9">>

IsDigit(c) == \E i \in 1..10 : Digits[i] = c
DigitVal(c) == (CHOOSE i \in 1..10 : Digits[i] = c) - 1
DigitChar(n) == Digits[n + 1]

\* /\s/ : the whitespace characters the inputs of the model contain
IsSpace(c) == c \in {SP, NL}

RECURSIVE Pow10(_)
Pow10(k) == IF k = 0 THEN 1 ELSE 10 * Pow10(k - 1)

\* `${n}` for an integer n
RECURSIVE NatToChars(_)
NatToChars(n) ==
    IF n < 10 THEN <<DigitChar(n)>>
    ELSE NatToChars(n \div 10) \o <<DigitChar(n % 10)>>

IntToChars(n) == IF n < 0 THEN <<"-">> \o NatToChars(-n) ELSE NatToChars(n)

\* n written with exactly k digits, zero padded on the left
RECURSIVE PadDigits(_, _)
PadDigits(n, k) ==
    IF k = 0 THEN <<>> ELSE PadDigits(n \div 10, k - 1) \o <<DigitChar(n % 10)>>

\* String.prototype.trim
RECURSIVE TrimLeft(_)
TrimLeft(s) ==
    IF s # <<>> /\ IsSpace(Head(s)) THEN TrimLeft(Tail(s)) ELSE s

RECURSIVE TrimRight(_)
TrimRight(s) ==
    IF s # <<>> /\ IsSpace(s[Len(s)]) THEN TrimRight(SubSeq(s, 1, Len(s) - 1)) ELSE s

Trim(s) == TrimRight(TrimLeft(s))

\* s.split('\n'): the segments between newlines, empty ones included
RECURSIVE SplitLinesFrom(_, _, _)
SplitLinesFrom(s, i, cur) ==
    LET nls == { j \in i..Len(s) : s[j] = NL }
    IN  IF nls = {} THEN << cur \o SubSeq(s, i, Len(s)) >>
        ELSE LET j == CHOOSE p \in nls : \A q \in nls : p <= q
             IN  << cur \o SubSeq(s, i, j - 1) >> \o SplitLinesFrom(s, j + 1, <<>>)

SplitLines(s) == SplitLinesFrom(s, 1, <<>>)

\* line.split(/\s+/): a run of whitespace is one separator; a separator at
\* either end of the string yields an empty field there, as in JavaScript
RECURSIVE SplitWsFrom(_, _, _, _)
SplitWsFrom(s, i, cur, inSep) ==
    IF i > Len(s) THEN <<cur>>
    ELSE
      LET same == { j \in i..Len(s) : \A k \in i..j : IsSpace(s[k]) = IsSpace(s[i]) }
          next == Cardinality(same) + i
      IN  IF IsSpace(s[i])
          THEN IF inSep THEN SplitWsFrom(s, next, cur, TRUE)
               ELSE <<cur>> \o SplitWsFrom(s, next, <<>>, TRUE)
          ELSE SplitWsFrom(s, next, cur \o SubSeq(s, i, next - 1), FALSE)

SplitWs(s) == SplitWsFrom(s, 1, <<>>, FALSE)

\* parts.join(sep)
RECURSIVE Join(_, _)
Join(parts, sep) ==
    IF parts = <<>> THEN <<>>
    ELSE IF Len(parts) = 1 THEN parts[1]
    ELSE parts[1] \o sep \o Join(Tail(parts), sep)

-----------------------------------------------------------------------------
(***************************************************************************)
(* Number.prototype.toFixed, parseInt and parseFloat.                      *)
(***************************************************************************)
\* toFixed(6) in toYoloTxt
Decimals == 6

\* <<floor(r * 10^k / d), (r * 10^k) mod d>> for 0 <= r < d, by long division
RECURSIVE FloorScaled(_, _, _)
FloorScaled(r, d, k) ==
    IF k = 0 THEN <<0, r>>
    ELSE LET p == FloorScaled(r, d, k - 1)
         IN  <<p[1] * 10 + (p[2] * 10) \div d, (p[2] * 10) % d>>

RECURSIVE IsPow2(_)
IsPow2(n) == IF n = 1 THEN TRUE ELSE IF n % 2 = 1 THEN FALSE ELSE IsPow2(n \div 2)

(***************************************************************************)
(* v.toFixed(Decimals) for a rational v >= 0, as the integer n with        *)
(* n / 10^Decimals nearest to v.  toFixed rounds the double, not the real: *)
(* on a decimal tie of the real, the double lies on one side of the tie    *)
(* unless the real is a binary fraction (then the larger n is taken), so   *)
(* both neighbours are possible results.                                   *)
(***************************************************************************)
ToFixedChoices(v) ==
    LET ip == v[1] \div v[2]
        fs == FloorScaled(v[1] % v[2], v[2], Decimals)
        lo == ip * Pow10(Decimals) + fs[1]
    IN  IF v[2] > 2 * fs[2] THEN {lo}
        ELSE IF v[2] < 2 * fs[2] THEN {lo + 1}
        ELSE IF IsPow2(v[2]) THEN {lo + 1}
        ELSE {lo, lo + 1}

\* FixedChars with one decimal fewer (a faulty variant)
FixedCharsShort(n) ==
    NatToChars(n \div Pow10(Decimals)) \o <<".">>
        \o PadDigits((n % Pow10(Decimals)) \div 10, Decimals - 1)

\* the characters of the toFixed result n / 10^Decimals
FixedChars(n) ==
    NatToChars(n \div Pow10(Decimals)) \o <<".">> \o PadDigits(n % Pow10(Decimals), Decimals)

NaN == [nan |-> TRUE]
Num(v) == [nan |-> FALSE, val |-> v]

\* the longest prefix of s, from position i, made of digits
RECURSIVE DigitRun(_, _)
DigitRun(s, i) ==
    IF i <= Len(s) /\ IsDigit(s[i]) THEN <<s[i]>> \o DigitRun(s, i + 1) ELSE <<>>

RECURSIVE DigitsValue(_)
DigitsValue(ds) ==
    IF ds = <<>> THEN 0 ELSE DigitsValue(SubSeq(ds, 1, Len(ds) - 1)) * 10 + DigitVal(ds[Len(ds)])

\* parseInt(str, 10): an optional sign and the longest run of digits after
\* it; what follows the digits is ignored; NaN when there is no digit
parseInt(str) ==
    LET signed == str # <<>> /\ Head(str) \in {"-", "+"}
        ds     == DigitRun(str, IF signed THEN 2 ELSE 1)
    IN  IF ds = <<>> THEN NaN
        ELSE Num(IF signed /\ Head(str) = "-" THEN -DigitsValue(ds) ELSE DigitsValue(ds))

\* parseFloat(str): an optional sign, digits, an optional point and digits
\* (at least one digit in all); what follows is ignored; NaN otherwise.
\* The value is a rational.  (Exponents and Infinity are not in the inputs.)
parseFloat(str) ==
    LET signed == str # <<>> /\ Head(str) \in {"-", "+"}
        i0     == IF signed THEN 2 ELSE 1
        ip     == DigitRun(str, i0)
        i1     == i0 + Len(ip)
        point  == i1 <= Len(str) /\ str[i1] = "."
        fp     == IF point THEN DigitRun(str, i1 + 1) ELSE <<>>
        mag    == Rat(DigitsValue(ip \o fp), Pow10(Len(fp)))
    IN  IF ip = <<>> /\ fp = <<>> THEN NaN
        ELSE Num(IF signed /\ Head(str) = "-" THEN RNeg(mag) ELSE mag)

-----------------------------------------------------------------------------
(***************************************************************************)
(* lib/yolo.ts                                                             *)
(***************************************************************************)
\* Math.max(0, Math.min(1, v))
Clamp01(v) == MathMax(I(0), MathMin(I(1), v))

\* the possible lines of toYoloTxt for one box: one per outcome of toFixed
YoloLineChoices(bbox, imgWidth, imgHeight) ==
    LET xCenter == RDiv(RAdd(bbox.x, RDiv(bbox.w, I(2))), I(imgWidth))
        yCenter == RDiv(RAdd(bbox.y, RDiv(bbox.h, I(2))), I(imgHeight))
        width   == RDiv(bbox.w, I(imgWidth))
        height  == RDiv(bbox.h, I(imgHeight))
    IN  { Join(<<IntToChars(bbox.classId), FixedChars(a), FixedChars(b),
                 FixedChars(c), FixedChars(d)>>, <<SP>>) :
            a \in ToFixedChoices(Clamp01(xCenter)),
            b \in ToFixedChoices(Clamp01(yCenter)),
            c \in ToFixedChoices(Clamp01(width)),
            d \in ToFixedChoices(Clamp01(height)) }

\* annotations.join('\n') over the first k boxes: the possible texts
RECURSIVE YoloTexts(_, _, _, _)
YoloTexts(bbs, k, imgWidth, imgHeight) ==
    IF k = 1 THEN YoloLineChoices(bbs[1], imgWidth, imgHeight)
    ELSE { t \o <<NL>> \o l :
             t \in YoloTexts(bbs, k - 1, imgWidth, imgHeight),
             l \in YoloLineChoices(bbs[k], imgWidth, imgHeight) }

\* toYoloTxt(bboxes, imgWidth, imgHeight): the set of its possible results
toYoloTxt(bbs, imgWidth, imgHeight) ==
    IF Len(bbs) = 0 \/ imgWidth <= 0 \/ imgHeight <= 0 THEN {<<>>}
    ELSE YoloTexts(bbs, Len(bbs), imgWidth, imgHeight)

\* the range test of parseYoloTxt without the test of the coordinates' upper bound
OutOfRangeNoUpper(classId, xCenter, yCenter, width, height) ==
    \/ classId < 0
    \/ RLt(xCenter, I(0)) \/ RLt(yCenter, I(0))
    \/ RLt(width, I(0))   \/ RLt(height, I(0))

\* parseYoloTxt: classId < 0 || xCenter < 0 || xCenter > 1 || ...
OutOfRange(classId, xCenter, yCenter, width, height) ==
    \/ classId < 0
    \/ RLt(xCenter, I(0)) \/ RLt(I(1), xCenter)
    \/ RLt(yCenter, I(0)) \/ RLt(I(1), yCenter)
    \/ RLt(width, I(0))   \/ RLt(I(1), width)
    \/ RLt(height, I(0))  \/ RLt(I(1), height)

\* the pixel origin taken for the centre itself (a faulty variant)
OriginAtCenter(center, size, len) == RMul(center, I(len))

\* parseYoloTxt: (xCenter - width / 2) * imgWidth, and the same for y
PixelOrigin(center, size, len) == RMul(RSub(center, RDiv(size, I(2))), I(len))

\* the body of parseYoloTxt's loop for lines[i]: <<>> (continue) or <<box>>
ParseYoloLine(rawLine, i, imgWidth, imgHeight, imageId) ==
    LET line  == Trim(rawLine)
        parts == SplitWs(line)
    IN  IF line = <<>> THEN <<>>
        ELSE IF Len(parts) # 5 THEN <<>>
        ELSE
          LET classId == parseInt(parts[1])
              xCenter == parseFloat(parts[2])
              yCenter == parseFloat(parts[3])
              width   == parseFloat(parts[4])
              height  == parseFloat(parts[5])
          IN  IF classId.nan \/ xCenter.nan \/ yCenter.nan \/ width.nan \/ height.nan
                THEN <<>>
              ELSE IF OutOfRange(classId.val, xCenter.val, yCenter.val, width.val, height.val)
                THEN <<>>
              ELSE
                LET x == PixelOrigin(xCenter.val, width.val, imgWidth)
                    y == PixelOrigin(yCenter.val, height.val, imgHeight)
                    w == RMul(width.val, I(imgWidth))
                    h == RMul(height.val, I(imgHeight))
                IN  << [ id      |-> i,
                         imageId |-> imageId,
                         classId |-> classId.val,
                         x |-> MathMax(I(0), x),
                         y |-> MathMax(I(0), y),
                         w |-> MathMin(RSub(I(imgWidth), MathMax(I(0), x)), w),
                         h |-> MathMin(RSub(I(imgHeight), MathMax(I(0), y)), h) ] >>

RECURSIVE ParseYoloLines(_, _, _, _, _)
ParseYoloLines(lines, i, imgWidth, imgHeight, imageId) ==
    IF i >= Len(lines) THEN <<>>
    ELSE ParseYoloLine(lines[i + 1], i, imgWidth, imgHeight, imageId)
           \o ParseYoloLines(lines, i + 1, imgWidth, imgHeight, imageId)

\* parseYoloTxt(content, imgWidth, imgHeight, imageId)
parseYoloTxt(content, imgWidth, imgHeight, imageId) ==
    IF Trim(content) = <<>> \/ imgWidth <= 0 \/ imgHeight <= 0 THEN <<>>
    ELSE ParseYoloLines(SplitLines(Trim(content)), 0, imgWidth, imgHeight, imageId)

-----------------------------------------------------------------------------
(***************************************************************************)
(* Inputs of the codec runs.                                               *)
(***************************************************************************)
\* image sizes <<imgWidth, imgHeight>>, from tiny to far beyond any real image
ImageSizes == { <<5, 4>>, <<64, 48>>, <<800, 600>>, <<1000, 800>>,
                <<1000000, 750000>>, <<3000000, 2000000>> }

\* coordinates along an axis of length len: the ends, the middle, a half
\* pixel, small values, and the values of the documented example
AxisSamples(len) ==
    { v \in { I(0), <<1, 2>>, I(1), I(7), I(100), I(220), I(300),
              I(len \div 2), I(len - 1), I(len) } : RLe(v, I(len)) }

\* the spans <<low, high>> along an axis, low < high
AxisSpans(len) ==
    { p \in AxisSamples(len) \X AxisSamples(len) : RLt(p[1], p[2]) }

\* boxes that satisfy the data-model invariants on an image of that size
ValidBoxes(imgWidth, imgHeight) ==
    { [id |-> 0, imageId |-> "img1", classId |-> 0,
       x |-> sx[1], y |-> sy[1], w |-> RSub(sx[2], sx[1]), h |-> RSub(sy[2], sy[1])] :
        sx \in AxisSpans(imgWidth), sy \in AxisSpans(imgHeight) }

\* the whole image, labelled with a two-digit class
FullBox(imgWidth, imgHeight) ==
    [id |-> 1, imageId |-> "img1", classId |-> 12,
     x |-> I(0), y |-> I(0), w |-> I(imgWidth), h |-> I(imgHeight)]

\* box lists handed to toYoloTxt: none, one box, one box and the full box
BoxLists(imgWidth, imgHeight) ==
    {<<>>} \cup { <<b>> : b \in ValidBoxes(imgWidth, imgHeight) }
           \cup { <<b, FullBox(imgWidth, imgHeight)>> : b \in ValidBoxes(imgWidth, imgHeight) }

(***************************************************************************)
(* Fields of annotation lines.  kind says what the text is, independently  *)
(* of any parser: "int" an integer literal, "dec" a decimal literal (val   *)
(* is its value), "other" anything else.                                   *)
(***************************************************************************)
Field(text, kind, val) == [text |-> text, kind |-> kind, val |-> val]

F_0      == Field(<<"0">>, "int", I(0))
F_1      == Field(<<"1">>, "int", I(1))
F_neg1   == Field(<<"-", "1">>, "int", I(-1))
F_1p5    == Field(<<"1", ".", "5">>, "dec", <<3, 2>>)
F_2abc   == Field(<<"2", "a", "b", "c">>, "other", I(0))
F_abc    == Field(<<"a", "b", "c">>, "other", I(0))
F_half   == Field(<<"0", ".", "5", "0", "0", "0", "0", "0">>, "dec", <<1, 2>>)
F_fifth  == Field(<<"0", ".", "2", "0", "0", "0", "0", "0">>, "dec", <<1, 5>>)
F_quart  == Field(<<"0", ".", "2", "5">>, "dec", <<1, 4>>)
F_tenth  == Field(<<".", "1">>, "dec", <<1, 10>>)
F_over   == Field(<<"1", ".", "5", "0", "0", "0", "0", "0">>, "dec", <<3, 2>>)
F_under  == Field(<<"-", "0", ".", "1">>, "dec", <<-1, 10>>)

\* annotation lines as lists of fields
AnnotationLines ==
    { <<F_0, F_half, F_half, F_fifth, F_fifth>>,       \* valid
      <<F_1, F_quart, F_quart, F_tenth, F_tenth>>,     \* valid
      <<F_1, F_over, F_half, F_fifth, F_fifth>>,       \* xCenter 1.5
      <<F_0, F_half, F_half, F_fifth, F_over>>,        \* height 1.5
      <<F_0, F_under, F_half, F_fifth, F_fifth>>,      \* xCenter -0.1
      <<F_0, F_half, F_half, F_fifth>>,                \* 4 fields
      <<F_0, F_half, F_half, F_fifth, F_fifth, F_0>>,  \* 6 fields
      <<F_0, F_abc, F_half, F_fifth, F_fifth>>,        \* a coordinate that is no number
      <<F_1p5, F_half, F_half, F_fifth, F_fifth>>,     \* class 1.5
      <<F_2abc, F_half, F_half, F_fifth, F_fifth>>,    \* class 2abc
      <<F_abc, F_half, F_half, F_fifth, F_fifth>>,     \* class abc
      <<F_neg1, F_half, F_half, F_fifth, F_fifth>>,    \* class -1
      <<>> }                                           \* blank line

\* the longest annotation file of the model, in lines
MaxLines == 2

\* a line of a file: its fields, and whether it is written with extra blanks
FileLines == [fields : AnnotationLines, padded : BOOLEAN]

RECURSIVE SeqsUpTo(_, _)
SeqsUpTo(S, n) ==
    IF n = 0 THEN {<<>>}
    ELSE LET shorter == SeqsUpTo(S, n - 1)
         IN  shorter \cup { Append(q, e) : q \in {r \in shorter : Len(r) = n - 1}, e \in S }

\* the annotation files of at most maxLines lines
AnnotationFilesUpTo(maxLines) == SeqsUpTo(FileLines, maxLines) \ {<<>>}

RECURSIVE FieldTexts(_)
FieldTexts(fields) ==
    IF fields = <<>> THEN <<>> ELSE <<Head(fields).text>> \o FieldTexts(Tail(fields))

\* the text of one line
LineText(l) ==
    IF l.padded THEN <<SP>> \o Join(FieldTexts(l.fields), <<SP, SP>>) \o <<SP>>
    ELSE Join(FieldTexts(l.fields), <<SP>>)

RECURSIVE LineTexts(_)
LineTexts(file) ==
    IF file = <<>> THEN <<>> ELSE <<LineText(Head(file))>> \o LineTexts(Tail(file))

\* the text of a file
FileText(file) == Join(LineTexts(file), <<NL>>)

-----------------------------------------------------------------------------
(***************************************************************************)
(* The state every specification starts from: a project with one class     *)
(* (createProject) to which two images have been added, the first of them  *)
(* shown.                                                                  *)
(***************************************************************************)
\* the size of the images of the project, in pixels
ImageWidth  == 20
ImageHeight == 16

\* null, for an image id, a box id, a point and a rectangle
NoImage == "null"
NoBBox  == <<>>
NoPoint == <<>>
NoRect  == <<>>

\* the fresh id of the n-th box addBBox creates
BBoxId(n) == <<"bbox", n>>

defaultToolState ==
    [mode |-> "select", selectedBBoxId |-> NoBBox, selectedClassId |-> 0, isDrawing |-> FALSE]

InitialImages ==
    << [id |-> "img1", width |-> ImageWidth, height |-> ImageHeight, status |-> "new",
        cloudinary |-> FALSE],
       [id |-> "img2", width |-> ImageWidth, height |-> ImageHeight, status |-> "new",
        cloudinary |-> FALSE] >>

InitProject ==
    /\ images = InitialImages
    /\ bboxes = <<>>
    /\ classes = << [id |-> 0, name |-> "object"] >>
    /\ currentImageId = "img1"
    /\ toolState = defaultToolState
    /\ hasUnsavedChanges = FALSE
    /\ updatedAt = 0
    /\ nextBBoxId = 1
    /\ isDrawing = FALSE
    /\ startPoint = NoPoint
    /\ currentRect = NoRect
    /\ lastOp = [op |-> "init"]

\* the container the canvas is given (app/page.tsx)
DefaultContainer == [width |-> ImageWidth, height |-> ImageHeight]

\* one Image object of the load effect: the image it loads, whether its
\* onload / onerror handlers are still attached, and how far the decode is
LoadOf(imageId, state) == [image |-> imageId, handlers |-> TRUE, state |-> state]

\* the canvas once the image shown has been decoded and fitted
InitShown ==
    /\ loads = << LoadOf("img1", "loaded") >>
    /\ konvaImage = 1
    /\ imageRef = 1
    /\ container = DefaultContainer
    /\ stagePos = NoPoint
    /\ wheels = 0

\* the browser offline: every fetch throws, and the call that made it logs the
\* error; no request in flight, nothing on the server, no save under way
FetchIdle == [phase |-> "idle", annotations |-> <<>>]
SaveIdle  == <<>>

\* project "P" is the current one; no /api/images request was made yet
InitProjectFetch ==
    /\ currentProjectId = "P"
    /\ fetchedProjectImages = {}
    /\ imageFetches = <<>>

InitOffline ==
    /\ online = FALSE
    /\ outbox = {}
    /\ serverAnnotations = <<>>
    /\ fetch = FetchIdle
    /\ save = SaveIdle
    /\ isSaving = FALSE
    /\ InitProjectFetch

CodecIdle ==
    [phase |-> "idle", bboxes |-> <<>>, imgWidth |-> 0, imgHeight |-> 0,
     file |-> <<>>, content |-> <<>>, parsed |-> <<>>]

-----------------------------------------------------------------------------
(***************************************************************************)
(* Codec runs: toYoloTxt on a box list, parseYoloTxt on a text.            *)
(***************************************************************************)
CodecInputsFor(sizes, maxLines) ==
    UNION { { [phase |-> "boxes", bboxes |-> bl, imgWidth |-> size[1], imgHeight |-> size[2],
               file |-> <<>>, content |-> <<>>, parsed |-> <<>>] :
                bl \in BoxLists(size[1], size[2]) } : size \in sizes }
    \cup
    { [phase |-> "text", bboxes |-> <<>>, imgWidth |-> 800, imgHeight |-> 600,
       file |-> f, content |-> FileText(f), parsed |-> <<>>] :
        f \in AnnotationFilesUpTo(maxLines) }

ToYoloTxt ==
    /\ codec.phase = "boxes"
    /\ \E t \in toYoloTxt(codec.bboxes, codec.imgWidth, codec.imgHeight) :
          codec' = [codec EXCEPT !.phase = "text", !.content = t]
    /\ lastOp' = [op |-> "toYoloTxt"]
    /\ UNCHANGED <<storeVars, canvasVars, sideVars, outbox, stagePos>>

ParseYoloTxt ==
    /\ codec.phase = "text"
    /\ codec' = [codec EXCEPT !.phase = "parsed",
                   !.parsed = parseYoloTxt(codec.content, codec.imgWidth, codec.imgHeight, "img1")]
    /\ lastOp' = [op |-> "parseYoloTxt"]
    /\ UNCHANGED <<storeVars, canvasVars, sideVars, outbox, stagePos>>

DefaultViewport == [scale |-> I(1), x |-> I(0), y |-> I(0)]

InitCodec ==
    /\ InitProject
    /\ InitShown
    /\ InitOffline
    /\ viewport = DefaultViewport
    /\ codec \in CodecInputsFor(ImageSizes, MaxLines)

NextCodec == ToYoloTxt \/ ParseYoloTxt

SpecCodec == InitCodec /\ [][NextCodec]_vars

-----------------------------------------------------------------------------
(***************************************************************************)
(* Properties of the codec (SpecCodec).                                    *)
(***************************************************************************)
\* the codec run encoded a box list and has its text
Encoded == codec.phase \in {"text", "parsed"} /\ codec.file = <<>>

\* the codec run parsed the text it had encoded
RoundTripped == codec.phase = "parsed" /\ codec.file = <<>> /\ codec.bboxes # <<>>

\* the exact normalized fields of a box
NormXCenter(b, imgWidth)  == RDiv(RAdd(b.x, RDiv(b.w, I(2))), I(imgWidth))
NormYCenter(b, imgHeight) == RDiv(RAdd(b.y, RDiv(b.h, I(2))), I(imgHeight))
NormWidth(b, imgWidth)    == RDiv(b.w, I(imgWidth))
NormHeight(b, imgHeight)  == RDiv(b.h, I(imgHeight))

Within(a, b, tol) == RLe(RAbs(RSub(a, b)), tol)
Closer(a, b, tol) == RLt(RAbs(RSub(a, b)), tol)

OneMillionth == Rat(1, Pow10(Decimals))

\* box p reproduces box b: same class, normalized fields within 1e-6,
\* pixel fields less than one pixel apart
Reproduces(p, b, imgWidth, imgHeight) ==
    /\ p.classId = b.classId
    /\ Within(NormXCenter(p, imgWidth), NormXCenter(b, imgWidth), OneMillionth)
    /\ Within(NormYCenter(p, imgHeight), NormYCenter(b, imgHeight), OneMillionth)
    /\ Within(NormWidth(p, imgWidth), NormWidth(b, imgWidth), OneMillionth)
    /\ Within(NormHeight(p, imgHeight), NormHeight(b, imgHeight), OneMillionth)
    /\ Closer(p.x, b.x, I(1)) /\ Closer(p.y, b.y, I(1))
    /\ Closer(p.w, b.w, I(1)) /\ Closer(p.h, b.h, I(1))

RoundTripHolds ==
    /\ Len(codec.parsed) = Len(codec.bboxes)
    /\ \A k \in 1..Len(codec.bboxes) :
          Reproduces(codec.parsed[k], codec.bboxes[k], codec.imgWidth, codec.imgHeight)

\* C7 as stated: for every box satisfying the data-model invariants and every
\* positive integer image size, parsing the text toYoloTxt produced gives one
\* box per line with the same class, normalized fields within 1e-6 and pixel
\* fields less than one pixel from the original.
C7_RoundTripAnySize == RoundTripped => RoundTripHolds

\* C7 amended: the same for image sizes up to 10^6 pixels a side (six
\* decimals resolve one millionth of the side, so a pixel only up to there).
C7_RoundTrip ==
    (RoundTripped /\ codec.imgWidth <= Pow10(Decimals) /\ codec.imgHeight <= Pow10(Decimals))
        => RoundTripHolds

\* C7 witness: a box of an 800x600 image went through toYoloTxt and
\* parseYoloTxt and came back with a y that six decimals could not keep
C7_Witness ==
    /\ RoundTripped
    /\ codec.imgWidth = 800 /\ codec.imgHeight = 600
    /\ Len(codec.bboxes) = 1 /\ Len(codec.parsed) = 1
    /\ codec.parsed[1].y # codec.bboxes[1].y
    /\ RLt(I(0), codec.parsed[1].h)

\* a toFixed(6) result: one digit, a point, six digits
IsFixed6(tok) ==
    /\ Len(tok) = Decimals + 2
    /\ tok[2] = "."
    /\ \A i \in (1..Len(tok)) \ {2} : IsDigit(tok[i])

Fixed6Value(tok) ==
    Rat(DigitsValue(<<tok[1]>> \o SubSeq(tok, 3, Len(tok))), Pow10(Decimals))

\* tok is the 6-decimal rendering of v clamped to [0,1]
Renders(tok, v) ==
    /\ IsFixed6(tok)
    /\ Within(Fixed6Value(tok), MathMax(I(0), MathMin(I(1), v)), Rat(1, 2 * Pow10(Decimals)))

ExampleBox ==
    [id |-> 0, imageId |-> "img1", classId |-> 0,
     x |-> I(100), y |-> I(100), w |-> I(200), h |-> I(120)]

\* "0 0.200000 0.200000 0.200000 0.150000"
ExampleLine ==
    << "0", " ", "0", ".", "2", "0", "0", "0", "0", "0",
            " ", "0", ".", "2", "0", "0", "0", "0", "0",
            " ", "0", ".", "2", "0", "0", "0", "0", "0",
            " ", "0", ".", "1", "5", "0", "0", "0", "0" >>

IsExampleRun ==
    codec.bboxes = <<ExampleBox>> /\ codec.imgWidth = 1000 /\ codec.imgHeight = 800

\* C8: toYoloTxt emits one line per box, 'classId xCenter yCenter width
\* height', the four values being (x + w/2)/W, (y + h/2)/H, w/W, h/H clamped
\* to [0,1] and written with exactly 6 decimals; the box {100,100,200,120} of
\* class 0 on a 1000x800 image gives '0 0.200000 0.200000 0.200000 0.150000'.
C8_ToYoloFormat ==
    (Encoded /\ codec.bboxes # <<>>) =>
        LET lines == SplitLinesFrom(codec.content, 1, <<>>)
        IN  /\ Len(lines) = Len(codec.bboxes)
            /\ \A k \in 1..Len(codec.bboxes) :
                 LET b == codec.bboxes[k]
                     f == SplitWsFrom(lines[k], 1, <<>>, FALSE)
                 IN  /\ Len(f) = 5
                     /\ lines[k] = Join(f, <<SP>>)
                     /\ f[1] = NatToChars(b.classId)
                     /\ Renders(f[2], NormXCenter(b, codec.imgWidth))
                     /\ Renders(f[3], NormYCenter(b, codec.imgHeight))
                     /\ Renders(f[4], NormWidth(b, codec.imgWidth))
                     /\ Renders(f[5], NormHeight(b, codec.imgHeight))
            /\ IsExampleRun => codec.content = ExampleLine

\* C8 witness: the documented example has been encoded
C8_Witness == Encoded /\ codec.phase = "text" /\ IsExampleRun /\ codec.content = ExampleLine

\* the codec run parsed a given annotation file
ParsedFile == codec.phase = "parsed" /\ codec.file # <<>>

IsBlank(l) == l.fields = <<>>

\* content.trim() removes the blank lines a file starts with
RECURSIVE LeadingBlanks(_)
LeadingBlanks(file) ==
    IF file # <<>> /\ IsBlank(Head(file)) THEN 1 + LeadingBlanks(Tail(file)) ELSE 0

\* the boxes that came from line j of the file (ids carry the line index)
BoxesOfLine(j) ==
    { k \in 1..Len(codec.parsed) : codec.parsed[k].id + 1 + LeadingBlanks(codec.file) = j }

InUnit(v) == RLe(I(0), v) /\ RLe(v, I(1))

IsNumber(f) == f.kind \in {"int", "dec"}

\* a line that is wrong in the way the claim names: not 5 fields, or a
\* coordinate that is a number outside [0,1]
WrongShape(l) ==
    /\ ~IsBlank(l)
    /\ \/ Len(l.fields) # 5
       \/ \E c \in 2..5 : IsNumber(l.fields[c]) /\ ~InUnit(l.fields[c].val)

\* a line that is valid by the format: a non-negative integer class and four
\* numbers in [0,1]
WellFormed(l) ==
    /\ Len(l.fields) = 5
    /\ l.fields[1].kind = "int" /\ RLe(I(0), l.fields[1].val)
    /\ \A c \in 2..5 : IsNumber(l.fields[c]) /\ InUnit(l.fields[c].val)

ExampleBadFile ==
    << [fields |-> <<F_1, F_over, F_half, F_fifth, F_fifth>>, padded |-> FALSE] >>

\* C9: parseYoloTxt recovers per line: a non-blank line without exactly 5
\* fields or with a coordinate outside [0,1] gives no box, every valid line
\* of the same file gives its box, in file order; the line
\* '1 1.500000 0.500000 0.200000 0.200000' alone gives no box.
C9_PerLineRecovery ==
    ParsedFile =>
        /\ \A j \in 1..Len(codec.file) :
              /\ WrongShape(codec.file[j]) => BoxesOfLine(j) = {}
              /\ WellFormed(codec.file[j]) => Cardinality(BoxesOfLine(j)) = 1
        /\ \A k \in 1..Len(codec.parsed) :
              /\ codec.parsed[k].id + 1 + LeadingBlanks(codec.file) \in 1..Len(codec.file)
              /\ k > 1 => codec.parsed[k - 1].id < codec.parsed[k].id
        /\ codec.file = ExampleBadFile => codec.parsed = <<>>

\* C9 witness: a file whose first line has xCenter 1.5 and whose second line
\* is valid was parsed into the one box of the second line
C9_Witness ==
    /\ ParsedFile
    /\ Len(codec.file) = 2
    /\ codec.file[1] = ExampleBadFile[1]
    /\ WellFormed(codec.file[2])
    /\ Len(codec.parsed) = 1 /\ codec.parsed[1].id = 1

\* C10: parseYoloTxt skips every line whose first field is not a
\* non-negative integer literal ('1.5', '2abc'): such a line gives no box.
C10_ClassMustBeInteger ==
    ParsedFile =>
        \A j \in 1..Len(codec.file) :
            (~IsBlank(codec.file[j])
               /\ ~(codec.file[j].fields[1].kind = "int" /\ RLe(I(0), codec.file[j].fields[1].val)))
                => BoxesOfLine(j) = {}

-----------------------------------------------------------------------------
(***************************************************************************)
(* lib/store.ts: box and tool operations, as the next value of the store.  *)
(***************************************************************************)
\* the most boxes created in a run (box ids are never reused)
MaxBoxes == 1

RECURSIVE SelectIndices(_, _, _)
SelectIndices(q, Test(_), i) ==
    IF i > Len(q) THEN <<>>
    ELSE (IF Test(q[i]) THEN <<i>> ELSE <<>>) \o SelectIndices(q, Test, i + 1)

\* array.findIndex(test), 1-based; 0 when there is none
FindIndex(q, Test(_)) ==
    LET hits == SelectIndices(q, Test, 1) IN IF hits = <<>> THEN 0 ELSE hits[1]

\* array.splice(i) in place of splice(i, 1): everything from i on goes
RemoveFrom(q, i) == SubSeq(q, 1, i - 1)

\* array.splice(i, 1)
RemoveAt(q, i) == SubSeq(q, 1, i - 1) \o SubSeq(q, i + 1, Len(q))

\* image.status = status for the image with that id, if there is one
SetImageStatus(imgs, imageId, status) ==
    [i \in 1..Len(imgs) |->
        IF imgs[i].id = imageId THEN [imgs[i] EXCEPT !.status = status] ELSE imgs[i]]

\* the most ticks of the clock behind Date.now() that a run tells apart
MaxClock == 1

\* new Date(Date.now()) for currentProject.updatedAt, given the stamp before
DateNow(t) == IF t < MaxClock THEN t + 1 ELSE t

\* image.cloudinary?.public_id is set for the image of that id
HasPublicId(imgs, imageId) ==
    \E i \in 1..Len(imgs) : imgs[i].id = imageId /\ imgs[i].cloudinary

\* saveAnnotationToServer(bboxId), up to its fetch: the POST it sends, if any
\* (requests in flight form a set: an identical request sent twice is one)
saveAnnotationToServer(imgs, boxes, bboxId) ==
    LET found == SelectSeq(boxes, LAMBDA b : b.id = bboxId)
    IN  IF found # <<>> /\ HasPublicId(imgs, found[1].imageId)
        THEN {[method |-> "POST", box |-> found[1]]} ELSE {}

\* updateAnnotationOnServer(bboxId), up to its fetch: the PUT it sends, if any
updateAnnotationOnServer(imgs, boxes, bboxId) ==
    LET found == SelectSeq(boxes, LAMBDA b : b.id = bboxId)
    IN  IF found # <<>> /\ HasPublicId(imgs, found[1].imageId)
        THEN {[method |-> "PUT", box |-> found[1]]} ELSE {}

\* deleteAnnotationFromServer(bboxId, imageId, projectId): always a DELETE
deleteAnnotationFromServer(bbox) == {[method |-> "DELETE", box |-> bbox]}

\* the requests in flight after those fetches: offline, fetch throws at once
\* and the catch of the caller drops the request
Sent(requests) == IF online THEN outbox \cup requests ELSE outbox

\* getBBoxesForImage(imageId)
getBBoxesForImage(imageId) == SelectSeq(bboxes, LAMBDA b : b.imageId = imageId)

\* addBBox(bbox): push the box under a fresh id, mark the project changed and
\* its image labeled; returns the id (here: BBoxId(nextBBoxId))
addBBox(imageId, classId, rect) ==
    /\ bboxes' = Append(bboxes, [id |-> BBoxId(nextBBoxId), imageId |-> imageId,
                                  classId |-> classId,
                                  x |-> rect.x, y |-> rect.y, w |-> rect.w, h |-> rect.h])
    /\ nextBBoxId' = nextBBoxId + 1
    /\ hasUnsavedChanges' = TRUE
    /\ updatedAt' = DateNow(updatedAt)
    /\ images' = SetImageStatus(images, imageId, "labeled")
    /\ outbox' = Sent(saveAnnotationToServer(images', bboxes', BBoxId(nextBBoxId)))

\* updateBBox marking the project changed although no box has the id
UpdateMarksChanged ==
    /\ UNCHANGED <<bboxes, outbox>>
    /\ hasUnsavedChanges' = TRUE
    /\ updatedAt' = DateNow(updatedAt)

\* updateBBox when findIndex is -1: `if (bboxIndex >= 0)` is skipped, and
\* with affectedImageId undefined so is updateAnnotationOnServer
UpdateNothing == UNCHANGED <<bboxes, hasUnsavedChanges, updatedAt, outbox>>

\* updateBBox(bboxId, {x, y, w, h}): nothing when the id is unknown
updateBBox(bboxId, rect) ==
    LET bboxIndex == FindIndex(bboxes, LAMBDA b : b.id = bboxId)
    IN  IF bboxIndex >= 1
        THEN /\ bboxes' = [bboxes EXCEPT ![bboxIndex] =
                              [@ EXCEPT !.x = rect.x, !.y = rect.y, !.w = rect.w, !.h = rect.h]]
             /\ hasUnsavedChanges' = TRUE
             /\ updatedAt' = DateNow(updatedAt)
             /\ outbox' = Sent(updateAnnotationOnServer(images, bboxes', bboxId))
        ELSE UpdateNothing

\* removeBBox(bboxId) followed by setSelectedBBox(selectAfter) when
\* clearSelection; nothing is removed when the id is unknown
removeBBox(bboxId, clearSelection) ==
    LET bboxIndex == FindIndex(bboxes, LAMBDA b : b.id = bboxId)
    IN  IF bboxIndex >= 1
        THEN LET bbox      == bboxes[bboxIndex]
                 remaining == RemoveAt(bboxes, bboxIndex)
                 none      == SelectSeq(remaining, LAMBDA b : b.imageId = bbox.imageId) = <<>>
             IN  /\ bboxes' = remaining
                 /\ images' = IF none THEN SetImageStatus(images, bbox.imageId, "new") ELSE images
                 /\ toolState' =
                      [toolState EXCEPT !.selectedBBoxId =
                          IF clearSelection \/ @ = bboxId THEN NoBBox ELSE @]
                 /\ hasUnsavedChanges' = TRUE
                 /\ updatedAt' = DateNow(updatedAt)
                 /\ outbox' = Sent(deleteAnnotationFromServer(bbox))
        ELSE /\ UNCHANGED <<bboxes, images, hasUnsavedChanges, updatedAt, outbox>>
             /\ toolState' =
                  [toolState EXCEPT !.selectedBBoxId = IF clearSelection THEN NoBBox ELSE @]

\* setToolMode that leaves the mode as it is
KeepMode(ts, mode) == ts

\* setToolMode(mode) leaving the component's own isDrawing state alone
\* (the store's flag is the only one it can reach)
setToolMode(ts, mode) == [ts EXCEPT !.mode = mode, !.isDrawing = FALSE]

\* setSelectedBBox that leaves the selection as it is
KeepSelection(ts, bboxId) == ts

\* setSelectedBBox(bboxId)
setSelectedBBox(ts, bboxId) == [ts EXCEPT !.selectedBBoxId = bboxId]

-----------------------------------------------------------------------------
(***************************************************************************)
(* components/CanvasStage.tsx                                              *)
(***************************************************************************)
\* the image shown: the image prop of CanvasStage
CurrentImage == images[CHOOSE i \in 1..Len(images) : images[i].id = currentImageId]

\* stage.getPointerPosition(): pointer positions in stage (screen) pixels,
\* inside and outside the image
PointerPositions ==
    { <<-4, -4>>, <<2, 2>>, <<7, 8>>, <<9, 9>>, <<40, 40>> }

\* viewports of the canvas: fitted at 1:1, fitted at 1:2, zoomed in to the maximum
Viewports ==
    { [scale |-> I(1), x |-> I(0), y |-> I(0)],
      [scale |-> <<1, 2>>, x |-> I(2), y |-> I(0)],
      [scale |-> I(5), x |-> I(-10), y |-> I(-5)] }

\* stageToImage(x, y)
stageToImage(x, y) ==
    [x |-> RDiv(RSub(x, viewport.x), viewport.scale),
     y |-> RDiv(RSub(y, viewport.y), viewport.scale)]

\* bbox.locked / bbox.hidden: optional fields of a BBox (lib/types.ts), which
\* read as undefined, that is false, on a box that does not carry them
IsLocked(b) == "locked" \in DOMAIN b /\ b.locked
IsHidden(b) == "hidden" \in DOMAIN b /\ b.hidden

\* the Rect under the pointer: the topmost box of the image that contains the
\* image point (Konva's hit test over the rendered boxes); NoBBox on the
\* background.  A locked box has listening={false}: the pointer goes through.
HitBBox(imagePos) ==
    LET shown == getBBoxesForImage(currentImageId)
        hits  == SelectSeq(shown, LAMBDA b :
                    /\ ~IsLocked(b)
                    /\ RLe(b.x, imagePos.x) /\ RLe(imagePos.x, RAdd(b.x, b.w))
                    /\ RLe(b.y, imagePos.y) /\ RLe(imagePos.y, RAdd(b.y, b.h)))
    IN  IF hits = <<>> THEN NoBBox ELSE hits[Len(hits)].id

\* handleMouseDown on the background (e.target is the stage or the image)
HandleMouseDown(pos) ==
    LET imagePos == stageToImage(I(pos[1]), I(pos[2]))
    IN  /\ toolState.mode # "pan"
        /\ HitBBox(imagePos) = NoBBox
        /\ IF toolState.mode = "draw"
           THEN /\ isDrawing' = TRUE
                /\ startPoint' = imagePos
                /\ currentRect' = [x |-> imagePos.x, y |-> imagePos.y, w |-> I(0), h |-> I(0)]
           ELSE UNCHANGED <<isDrawing, startPoint, currentRect>>
        /\ toolState' = setSelectedBBox(toolState, NoBBox)
        /\ lastOp' = [op |-> "mouseDown"]
        /\ UNCHANGED <<images, bboxes, classes, currentImageId, viewport,
                       hasUnsavedChanges, updatedAt, nextBBoxId, codec, sideVars, outbox, stagePos>>

\* the candidate rectangle of handleMouseMove without the clamping
UnclampedRect(start, imagePos, image) ==
    [x |-> MathMin(start.x, imagePos.x),
     y |-> MathMin(start.y, imagePos.y),
     w |-> RAbs(RSub(imagePos.x, start.x)),
     h |-> RAbs(RSub(imagePos.y, start.y))]

\* the candidate rectangle of handleMouseMove
CandidateRect(start, imagePos, image) ==
    LET x == MathMin(start.x, imagePos.x)
        y == MathMin(start.y, imagePos.y)
        w == RAbs(RSub(imagePos.x, start.x))
        h == RAbs(RSub(imagePos.y, start.y))
        clampedX == clamp(x, I(0), I(image.width))
        clampedY == clamp(y, I(0), I(image.height))
        clampedW == clamp(w, I(0), RSub(I(image.width), clampedX))
        clampedH == clamp(h, I(0), RSub(I(image.height), clampedY))
    IN  [x |-> clampedX, y |-> clampedY, w |-> clampedW, h |-> clampedH]

\* handleMouseMove
HandleMouseMove(pos) ==
    /\ isDrawing /\ startPoint # NoPoint /\ toolState.mode = "draw"
    /\ currentRect' = CandidateRect(startPoint, stageToImage(I(pos[1]), I(pos[2])), CurrentImage)
    /\ lastOp' = [op |-> "mouseMove"]
    /\ UNCHANGED <<storeVars, isDrawing, startPoint, codec, sideVars, outbox, stagePos>>

\* the size test of handleMouseUp with >= in place of >
LargeEnoughOrEqual(rect) == RLe(I(5), rect.w) /\ RLe(I(5), rect.h)

\* handleMouseUp: currentRect.w > 5 && currentRect.h > 5
LargeEnough(rect) == RLt(I(5), rect.w) /\ RLt(I(5), rect.h)

\* handleMouseUp
HandleMouseUp ==
    /\ IF isDrawing /\ currentRect # NoRect /\ LargeEnough(currentRect)
       THEN /\ nextBBoxId <= MaxBoxes
            /\ addBBox(currentImageId, toolState.selectedClassId, currentRect)
            /\ toolState' = setSelectedBBox(toolState, BBoxId(nextBBoxId))
            /\ lastOp' = [op |-> "mouseUp", committed |-> TRUE,
                           drawing |-> isDrawing, rect |-> currentRect]
       ELSE /\ UNCHANGED <<bboxes, nextBBoxId, hasUnsavedChanges, updatedAt, images, toolState,
                           outbox>>
            /\ lastOp' = [op |-> "mouseUp", committed |-> FALSE,
                           drawing |-> isDrawing, rect |-> currentRect]
    /\ isDrawing' = FALSE
    /\ startPoint' = NoPoint
    /\ currentRect' = NoRect
    /\ UNCHANGED <<classes, currentImageId, viewport, codec, sideVars, stagePos>>

\* handleBBoxClick(bboxId): onClick / onTap of a box's Rect
HandleBBoxClick(bboxId) ==
    /\ toolState.mode = "select"
    /\ toolState' = setSelectedBBox(toolState, bboxId)
    /\ lastOp' = [op |-> "bboxClick", id |-> bboxId]
    /\ UNCHANGED <<images, bboxes, classes, currentImageId, viewport,
                   hasUnsavedChanges, updatedAt, nextBBoxId, canvasVars, codec, sideVars, outbox, stagePos>>

\* node attributes a drag or a resize reports: x, y, width, height, scaleX, scaleY
TransformAttrs ==
    { [x |-> I(3),  y |-> I(2),  width |-> I(6),  height |-> I(6),  scaleX |-> I(1), scaleY |-> I(1)],
      [x |-> I(-5), y |-> I(-5), width |-> I(6),  height |-> I(6),  scaleX |-> I(1), scaleY |-> I(1)],
      [x |-> I(18), y |-> I(14), width |-> I(6),  height |-> I(6),  scaleX |-> I(1), scaleY |-> I(1)],
      [x |-> I(0),  y |-> I(0),  width |-> I(6),  height |-> I(6),  scaleX |-> I(5), scaleY |-> I(2)],
      [x |-> I(19), y |-> I(15), width |-> I(6),  height |-> I(6),  scaleX |-> <<1, 2>>, scaleY |-> <<1, 2>>] }

\* the rectangle handleBBoxTransform stores
TransformedRect(newAttrs, image) ==
    LET imagePos     == stageToImage(newAttrs.x, newAttrs.y)
        scaledWidth  == RDiv(RMul(newAttrs.width, newAttrs.scaleX), viewport.scale)
        scaledHeight == RDiv(RMul(newAttrs.height, newAttrs.scaleY), viewport.scale)
        x == clamp(imagePos.x, I(0), RSub(I(image.width), scaledWidth))
        y == clamp(imagePos.y, I(0), RSub(I(image.height), scaledHeight))
        w == clamp(scaledWidth, I(5), RSub(I(image.width), x))
        h == clamp(scaledHeight, I(5), RSub(I(image.height), y))
    IN  [x |-> x, y |-> y, w |-> w, h |-> h]

\* handleBBoxTransform(bboxId, newAttrs): onTransform / onDragEnd of a box's
\* Rect, which is draggable and carries the Transformer in select mode
HandleBBoxTransform(bboxId, newAttrs) ==
    /\ toolState.mode = "select"
    /\ updateBBox(bboxId, TransformedRect(newAttrs, CurrentImage))
    /\ lastOp' = [op |-> "bboxTransform", id |-> bboxId]
    /\ UNCHANGED <<images, classes, currentImageId, toolState, viewport,
                   nextBBoxId, canvasVars, codec, sideVars, stagePos>>

\* the Stage is rendered, with its handlers, once an image is decoded:
\* `if (!konvaImage) return` the "Loading image..." placeholder
StageShown == konvaImage # 0

\* the position of the stage node after a render in that mode.  Outside pan
\* mode the x / y props bind it to the viewport (NoPoint).  In pan mode the
\* props are undefined and the node keeps its own position, with the sum of
\* the drags since; what it holds when the props turn undefined is the
\* library's business: the position it had, or the default origin.
StagePositions(mode) ==
    IF mode # "pan" THEN {NoPoint}
    ELSE IF toolState.mode = "pan" THEN {stagePos}
    ELSE {[x |-> viewport.x, y |-> viewport.y, dragged |-> <<0, 0>>],
          [x |-> I(0), y |-> I(0), dragged |-> <<0, 0>>]}

\* handleKeyDown: 'Delete' / 'Backspace'
KeyDelete ==
    /\ toolState.selectedBBoxId # NoBBox
    /\ removeBBox(toolState.selectedBBoxId, TRUE)
    /\ lastOp' = [op |-> "keyDelete"]
    /\ UNCHANGED <<classes, currentImageId, viewport, nextBBoxId, canvasVars, codec, sideVars,
                   stagePos>>

\* handleKeyDown: 'n' / 'N'
KeyN ==
    /\ toolState' = setToolMode(toolState, "draw")
    /\ stagePos' \in StagePositions("draw")
    /\ lastOp' = [op |-> "keyN"]
    /\ UNCHANGED <<images, bboxes, classes, currentImageId, viewport,
                   hasUnsavedChanges, updatedAt, nextBBoxId, canvasVars, codec, sideVars, outbox>>

\* handleKeyDown: 'Escape'
KeyEscape ==
    /\ toolState' = setToolMode(setSelectedBBox(toolState, NoBBox), "select")
    /\ stagePos' \in StagePositions("select")
    /\ lastOp' = [op |-> "keyEscape"]
    /\ UNCHANGED <<images, bboxes, classes, currentImageId, viewport,
                   hasUnsavedChanges, updatedAt, nextBBoxId, canvasVars, codec, sideVars, outbox>>

\* handleKeyDown: ' ' (not a key repeat)
KeySpaceDown ==
    /\ toolState' = setToolMode(toolState, "pan")
    /\ stagePos' \in StagePositions("pan")
    /\ lastOp' = [op |-> "keySpaceDown"]
    /\ UNCHANGED <<images, bboxes, classes, currentImageId, viewport,
                   hasUnsavedChanges, updatedAt, nextBBoxId, canvasVars, codec, sideVars, outbox>>

\* handleKeyUp: ' '
KeySpaceUp ==
    /\ toolState' = setToolMode(toolState, "select")
    /\ stagePos' \in StagePositions("select")
    /\ lastOp' = [op |-> "keySpaceUp"]
    /\ UNCHANGED <<images, bboxes, classes, currentImageId, viewport,
                   hasUnsavedChanges, updatedAt, nextBBoxId, canvasVars, codec, sideVars, outbox>>

ShownBBoxIds == { getBBoxesForImage(currentImageId)[i].id :
                    i \in 1..Len(getBBoxesForImage(currentImageId)) }

\* the boxes whose Rect takes pointer events: listening={!bbox.locked}
ListeningBBoxIds ==
    { getBBoxesForImage(currentImageId)[i].id :
        i \in { j \in 1..Len(getBBoxesForImage(currentImageId)) :
                   ~IsLocked(getBBoxesForImage(currentImageId)[j]) } }

MouseDown      == StageShown /\ \E pos \in PointerPositions : HandleMouseDown(pos)
MouseMove      == StageShown /\ \E pos \in PointerPositions : HandleMouseMove(pos)
MouseUp        == StageShown /\ HandleMouseUp
BBoxClick      == StageShown /\ \E id \in ListeningBBoxIds : HandleBBoxClick(id)
BBoxTransform  == StageShown /\ \E id \in ListeningBBoxIds : \E a \in TransformAttrs : HandleBBoxTransform(id, a)

InitCanvas ==
    /\ InitProject
    /\ InitShown
    /\ InitOffline
    /\ viewport \in Viewports
    /\ codec = CodecIdle

NextCanvas ==
    \/ MouseDown \/ MouseMove \/ MouseUp
    \/ BBoxClick \/ BBoxTransform
    \/ KeyDelete \/ KeyN \/ KeyEscape \/ KeySpaceDown \/ KeySpaceUp

SpecCanvas == InitCanvas /\ [][NextCanvas]_vars

-----------------------------------------------------------------------------
(***************************************************************************)
(* Properties of the canvas (SpecCanvas).                                  *)
(***************************************************************************)
\* the data-model invariants of a box on an image
InsideImage(b, image) ==
    /\ RLe(I(0), b.x) /\ RLe(I(0), b.y)
    /\ RLe(RAdd(b.x, b.w), I(image.width))
    /\ RLe(RAdd(b.y, b.h), I(image.height))
    /\ RLt(I(0), b.w) /\ RLt(I(0), b.h)

BBoxById(q, id) == q[CHOOSE i \in 1..Len(q) : q[i].id = id]

\* the state right after a pointer-up that committed a box
JustCommitted == lastOp.op = "mouseUp" /\ lastOp.committed

\* C1: a box committed by a draw gesture, whatever the pointer positions
\* (outside the image included), lies inside the image and has positive size.
C1_DrawnBoxInsideImage ==
    JustCommitted => InsideImage(bboxes[Len(bboxes)], CurrentImage)

\* C1 witness: a gesture that left the image committed a box that ends at
\* the image's right and bottom edges
C1_Witness ==
    /\ JustCommitted
    /\ RAdd(bboxes[Len(bboxes)].x, bboxes[Len(bboxes)].w) = I(ImageWidth)
    /\ RAdd(bboxes[Len(bboxes)].y, bboxes[Len(bboxes)].h) = I(ImageHeight)

\* C2: after handleBBoxTransform the stored box is inside the image with
\* w >= 5 and h >= 5, or the box list is unchanged.
C2_TransformClamps ==
    [][ lastOp'.op = "bboxTransform" =>
          \/ bboxes' = bboxes
          \/ LET b == BBoxById(bboxes', lastOp'.id)
             IN  /\ InsideImage(b, CurrentImage)
                 /\ RLe(I(5), b.w) /\ RLe(I(5), b.h) ]_vars

\* C3: a pointer-up that ends a draw gesture commits the candidate rectangle
\* as a new box if and only if w > 5 and h > 5, leaves the box list unchanged
\* otherwise, and in both cases returns the drawing state to Idle.
C3_MouseUpCommitsIffLarge ==
    [][ (lastOp'.op = "mouseUp" /\ isDrawing /\ currentRect # NoRect) =>
          /\ IF RLt(I(5), currentRect.w) /\ RLt(I(5), currentRect.h)
             THEN /\ Len(bboxes') = Len(bboxes) + 1
                  /\ SubSeq(bboxes', 1, Len(bboxes)) = bboxes
                  /\ LET b == bboxes'[Len(bboxes')]
                     IN  /\ b.x = currentRect.x /\ b.y = currentRect.y
                         /\ b.w = currentRect.w /\ b.h = currentRect.h
             ELSE bboxes' = bboxes
          /\ ~isDrawing' /\ startPoint' = NoPoint /\ currentRect' = NoRect ]_vars

\* C3 witness: a gesture whose rectangle was exactly 5 wide ended without a box
C3_Witness ==
    /\ lastOp.op = "mouseUp" /\ lastOp.drawing /\ ~lastOp.committed
    /\ lastOp.rect # NoRect /\ lastOp.rect.w = I(5) /\ RLt(I(5), lastOp.rect.h)
    /\ ~isDrawing /\ startPoint = NoPoint /\ currentRect = NoRect

\* C4: when the tool mode is switched in the middle of a drag (Escape or
\* Space pressed), the pointer-up that follows commits no box.
C4_ModeSwitchCancelsDraw ==
    [][ (lastOp.op \in {"keyEscape", "keySpaceDown"} /\ isDrawing
           /\ lastOp'.op = "mouseUp") => bboxes' = bboxes ]_vars

-----------------------------------------------------------------------------
(***************************************************************************)
(* lib/store.ts: images and classes; components/ExportDialog.tsx:          *)
(* ClassPanel.                                                             *)
(***************************************************************************)
\* the most boxes created in a run of the store specification
MaxStoreBoxes == 2

\* the largest class id addClass hands out in a run
MaxClassId == 2

\* names a user gives to new classes (all different, so that a name
\* identifies its class across a renumbering)
ClassNames == {"cat", "dog"}

\* the rectangle of the boxes drawn in the store specification
DrawnRect == [x |-> I(2), y |-> I(2), w |-> I(7), h |-> I(7)]

\* removeImage's filter with the test left out (a faulty variant)
KeepAllBBoxes(q, imageId) == q

\* removeImage: bboxes.filter(bbox => bbox.imageId !== imageId)
BBoxesNotOfImage(q, imageId) == SelectSeq(q, LAMBDA b : b.imageId # imageId)

\* removeClass: bboxes.filter(bbox => bbox.classId !== classId)
BBoxesNotOfClass(q, classId) == SelectSeq(q, LAMBDA b : b.classId # classId)

\* Math.max(...classes.map(c => c.id), -1)
RECURSIVE MaxOfIds(_)
MaxOfIds(cls) ==
    IF cls = <<>> THEN -1
    ELSE LET rest == MaxOfIds(Tail(cls))
         IN  IF Head(cls).id > rest THEN Head(cls).id ELSE rest

\* removeImage(imageId), for an image of the project
RemoveImage(imageId) ==
    LET imageIndex == FindIndex(images, LAMBDA img : img.id = imageId)
        left       == RemoveAt(images, imageIndex)
    IN  /\ imageIndex >= 1
        /\ images' = left
        /\ bboxes' = BBoxesNotOfImage(bboxes, imageId)
        /\ currentImageId' =
              IF currentImageId = imageId
              THEN (IF Len(left) > 0 THEN left[1].id ELSE NoImage)
              ELSE currentImageId
        /\ hasUnsavedChanges' = TRUE
        /\ updatedAt' = DateNow(updatedAt)
        /\ lastOp' = [op |-> "removeImage", id |-> imageId,
                      removed |-> Len(bboxes) - Len(BBoxesNotOfImage(bboxes, imageId))]
        /\ UNCHANGED <<classes, toolState, viewport, nextBBoxId, canvasVars, codec, sideVars, outbox, stagePos>>

\* setCurrentImage(imageId)
SetCurrentImage(imageId) ==
    /\ currentImageId' = imageId
    /\ toolState' = [toolState EXCEPT !.selectedBBoxId = NoBBox]
    /\ lastOp' = [op |-> "setCurrentImage", id |-> imageId]
    /\ UNCHANGED <<images, bboxes, classes, viewport, hasUnsavedChanges, updatedAt,
                   nextBBoxId, canvasVars, codec, sideVars, outbox, stagePos>>

\* addClass(name)
AddClass(name) ==
    LET maxId == MaxOfIds(classes)
    IN  /\ maxId + 1 <= MaxClassId
        /\ classes' = Append(classes, [id |-> maxId + 1, name |-> name])
        /\ hasUnsavedChanges' = TRUE
        /\ updatedAt' = DateNow(updatedAt)
        /\ lastOp' = [op |-> "addClass", name |-> name]
        /\ UNCHANGED <<images, bboxes, currentImageId, toolState, viewport,
                       nextBBoxId, canvasVars, codec, sideVars, outbox, stagePos>>

\* removeClass(classId)
RemoveClass(classId) ==
    LET left == SelectSeq(classes, LAMBDA cls : cls.id # classId)
    IN  /\ classes' = left
        /\ bboxes' = BBoxesNotOfClass(bboxes, classId)
        /\ toolState' =
              IF toolState.selectedClassId = classId
              THEN [toolState EXCEPT !.selectedClassId =
                        IF Len(left) > 0 THEN left[1].id ELSE 0]
              ELSE toolState
        /\ hasUnsavedChanges' = TRUE
        /\ updatedAt' = DateNow(updatedAt)
        /\ lastOp' = [op |-> "removeClass", classId |-> classId,
                      removed |-> Len(bboxes) - Len(BBoxesNotOfClass(bboxes, classId))]
        /\ UNCHANGED <<images, currentImageId, viewport, nextBBoxId, canvasVars, codec, sideVars, outbox, stagePos>>

\* classIdMapping of reorderClasses: old id -> index in newOrder (0-based);
\* the ids newOrder does not hold are not in its domain
ClassIdMapping(newOrder) ==
    [old \in { newOrder[i].id : i \in 1..Len(newOrder) } |->
        (CHOOSE i \in 1..Len(newOrder) :
            /\ newOrder[i].id = old
            /\ \A j \in (i + 1)..Len(newOrder) : newOrder[j].id # old) - 1]

\* reorderClasses' rewrite of the boxes left out (a faulty variant)
RelabelNothing(q, mapping) == q

\* reorderClasses: bboxes.forEach(bbox => { if (mapping[bbox.classId] !==
\* undefined) bbox.classId = mapping[bbox.classId] })
RelabelBBoxes(q, mapping) ==
    [k \in 1..Len(q) |->
        IF q[k].classId \in DOMAIN mapping
        THEN [q[k] EXCEPT !.classId = mapping[q[k].classId]]
        ELSE q[k]]

RECURSIVE NamesOf(_)
NamesOf(cls) == IF cls = <<>> THEN <<>> ELSE <<Head(cls).name>> \o NamesOf(Tail(cls))

\* reorderClasses(newOrder)
ReorderClasses(newOrder) ==
    LET classIdMapping == ClassIdMapping(newOrder)
    IN  /\ classes' = [i \in 1..Len(newOrder) |-> [newOrder[i] EXCEPT !.id = i - 1]]
        /\ bboxes' = RelabelBBoxes(bboxes, classIdMapping)
        /\ toolState' =
              IF toolState.selectedClassId \in DOMAIN classIdMapping
              THEN [toolState EXCEPT !.selectedClassId = classIdMapping[@]]
              ELSE toolState
        /\ hasUnsavedChanges' = TRUE
        /\ updatedAt' = DateNow(updatedAt)
        /\ lastOp' = [op |-> "reorderClasses", names |-> NamesOf(newOrder)]
        /\ UNCHANGED <<images, currentImageId, viewport, nextBBoxId, canvasVars, codec, sideVars, outbox, stagePos>>

\* array.splice(pos - 1, 0, e), pos 1-based
InsertAt(q, pos, e) == SubSeq(q, 1, pos - 1) \o <<e>> \o SubSeq(q, pos, Len(q))

\* ClassPanel.handleDrop: the dragged class is taken out and put back at the
\* target's index
DroppedOrder(cls, sourceIndex, targetIndex) ==
    InsertAt(RemoveAt(cls, sourceIndex), targetIndex, cls[sourceIndex])

\* ClassPanel.handleDrop(targetClassId) with draggedClassId
HandleDrop(draggedClassId, targetClassId) ==
    LET sourceIndex == FindIndex(classes, LAMBDA c : c.id = draggedClassId)
        targetIndex == FindIndex(classes, LAMBDA c : c.id = targetClassId)
    IN  /\ draggedClassId # targetClassId
        /\ sourceIndex >= 1 /\ targetIndex >= 1
        /\ ReorderClasses(DroppedOrder(classes, sourceIndex, targetIndex))

\* setSelectedClass(classId): a click in the class list or a digit key
SetSelectedClass(classId) ==
    /\ toolState' = [toolState EXCEPT !.selectedClassId = classId]
    /\ lastOp' = [op |-> "setSelectedClass", classId |-> classId]
    /\ UNCHANGED <<images, bboxes, classes, currentImageId, viewport,
                   hasUnsavedChanges, updatedAt, nextBBoxId, canvasVars, codec, sideVars, outbox, stagePos>>

\* a completed draw gesture on the image shown: handleMouseUp's addBBox and
\* setSelectedBBox
DrawBBox ==
    /\ currentImageId # NoImage
    /\ nextBBoxId <= MaxStoreBoxes
    /\ addBBox(currentImageId, toolState.selectedClassId, DrawnRect)
    /\ toolState' = setSelectedBBox(toolState, BBoxId(nextBBoxId))
    /\ StageShown
    /\ lastOp' = [op |-> "drawBBox"]
    /\ UNCHANGED <<classes, currentImageId, viewport, canvasVars, codec, sideVars, stagePos>>

ImageIds == { images[i].id : i \in 1..Len(images) }
ClassIds == { classes[i].id : i \in 1..Len(classes) }
UsedNames == { classes[i].name : i \in 1..Len(classes) }

RemoveImageStep     == \E id \in ImageIds : RemoveImage(id)
SetCurrentImageStep == \E id \in ImageIds : id # currentImageId /\ SetCurrentImage(id)
AddClassStep        == \E name \in ClassNames \ UsedNames : AddClass(name)
RemoveClassStep     == \E c \in ClassIds : RemoveClass(c)
ReorderClassesStep  == \E d \in ClassIds : \E t \in ClassIds : HandleDrop(d, t)
SetSelectedClassStep == \E c \in ClassIds : c # toolState.selectedClassId /\ SetSelectedClass(c)

InitStore ==
    /\ InitProject
    /\ InitShown
    /\ InitOffline
    /\ viewport = DefaultViewport
    /\ codec = CodecIdle

NextStore ==
    \/ RemoveImageStep \/ SetCurrentImageStep
    \/ AddClassStep \/ RemoveClassStep \/ ReorderClassesStep \/ SetSelectedClassStep
    \/ DrawBBox \/ KeyDelete

SpecStore == InitStore /\ [][NextStore]_vars

-----------------------------------------------------------------------------
(***************************************************************************)
(* Properties of the store's cascades and of the class renumbering.        *)
(***************************************************************************)
BBoxSet(q) == { q[k] : k \in 1..Len(q) }

\* the step is a removeImage
ImageRemoved == lastOp'.op = "removeImage"

\* the step is a removeClass
ClassRemoved == lastOp'.op = "removeClass"

CascadeDelete ==
    /\ ImageRemoved =>
          BBoxSet(bboxes') = { b \in BBoxSet(bboxes) : b.imageId # lastOp'.id }
    /\ ClassRemoved =>
          BBoxSet(bboxes') = { b \in BBoxSet(bboxes) : b.classId # lastOp'.classId }

\* C5: removeImage(id) removes every box of image id and no other box, and
\* removeClass(c) removes every box of class c and no other box.
C5_CascadeDelete == [][CascadeDelete]_vars

\* an image was removed with a box of its own, and a box of another image
\* is still there
C5_Witness ==
    /\ lastOp.op = "removeImage"
    /\ lastOp.removed >= 1
    /\ Len(bboxes) >= 1

\* the step is a reorderClasses
Reordered == lastOp'.op = "reorderClasses"

\* the 1-based position of the class called name in cls, 0 when absent
PositionOfName(cls, name) == FindIndex(cls, LAMBDA c : c.name = name)

\* the name of the class with this id in cls, "" when absent
NameOfId(cls, id) ==
    LET i == FindIndex(cls, LAMBDA c : c.id = id)
    IN  IF i >= 1 THEN cls[i].name ELSE ""

ReorderConsistent ==
    Reordered =>
      /\ NamesOf(classes') = lastOp'.names
      /\ \A i \in 1..Len(classes') : classes'[i].id = i - 1
      /\ Len(bboxes') = Len(bboxes)
      /\ \A k \in 1..Len(bboxes) :
            /\ bboxes'[k] = [bboxes[k] EXCEPT !.classId = bboxes'[k].classId]
            /\ bboxes[k].classId \in ClassIds =>
                  bboxes'[k].classId =
                     PositionOfName(classes', NameOfId(classes, bboxes[k].classId)) - 1
            /\ \E i \in 1..Len(classes') : classes'[i].id = bboxes'[k].classId

\* C6: after reorderClasses with a permutation of the class list the classes
\* carry ids 0..N-1 in the new order, every box refers to the new id of the
\* class it referred to, and no box has a classId the class list lacks.
C6_ReorderConsistent == [][ReorderConsistent]_vars

\* after a reorder the class created first is no longer class 0, and a box
\* that was drawn with another id now refers to class 0
C6_Witness ==
    /\ lastOp.op = "reorderClasses"
    /\ Len(classes) = 3
    /\ classes[1].name # "object"
    /\ \E k \in 1..Len(bboxes) : bboxes[k].classId = 0
    /\ \E k \in 1..Len(bboxes) : bboxes[k].classId = 2

-----------------------------------------------------------------------------
(***************************************************************************)
(* components/CanvasStage.tsx: the image-load effect.  The component is    *)
(* mounted once (app/page.tsx gives it no key) and the effect re-runs when *)
(* image.url changes: its cleanup, then a new Image object.                *)
(***************************************************************************)
\* the most Image objects the load effect creates in a run
MaxLoads == 2

\* a project whose two images differ in size
LoadImages ==
    << [id |-> "img1", width |-> ImageWidth, height |-> ImageHeight, status |-> "new",
        cloudinary |-> FALSE],
       [id |-> "img2", width |-> ImageHeight, height |-> ImageWidth, status |-> "new",
        cloudinary |-> FALSE] >>

ImageById(imageId) == images[CHOOSE i \in 1..Len(images) : images[i].id = imageId]

\* the cleanup the effect returns: the handlers of imageRef.current, the
\* Image that loaded last, are set to null
EffectCleanup(ls) ==
    IF imageRef = 0 THEN ls ELSE [ls EXCEPT ![imageRef].handlers = FALSE]

\* the effect body: const img = new Image(); img.onload = ...; img.src = url
EffectRun(ls, imageId) == Append(ls, LoadOf(imageId, "pending"))

\* the viewport img.onload sets: the image fitted in the container, never
\* scaled up, centred
FittedViewport(cont, img) ==
    LET scaleX == RDiv(I(cont.width), I(img.width))
        scaleY == RDiv(I(cont.height), I(img.height))
        scale  == MathMin(MathMin(scaleX, scaleY), I(1))
    IN  [scale |-> scale,
         x |-> RDiv(RSub(I(cont.width), RMul(I(img.width), scale)), I(2)),
         y |-> RDiv(RSub(I(cont.height), RMul(I(img.height), scale)), I(2))]

\* the user picks another image: setCurrentImage(imageId), then the render
\* with the new image prop re-runs the load effect
ShowImage(imageId) ==
    /\ imageId # currentImageId
    /\ Len(loads) < MaxLoads
    /\ currentImageId' = imageId
    /\ toolState' = [toolState EXCEPT !.selectedBBoxId = NoBBox]
    /\ loads' = EffectRun(EffectCleanup(loads), imageId)
    /\ lastOp' = [op |-> "showImage", id |-> imageId]
    /\ UNCHANGED <<images, bboxes, classes, viewport, hasUnsavedChanges, updatedAt,
                   nextBBoxId, canvasVars, konvaImage, imageRef, container, stagePos, wheels,
                   netVars, outbox, codec>>

\* the browser finishes decoding the k-th Image: its onload handler runs if
\* it is still attached
OnLoad(k) ==
    /\ loads[k].state = "pending"
    /\ loads' = [loads EXCEPT ![k].state = "loaded"]
    /\ IF loads[k].handlers
       THEN /\ konvaImage' = k
            /\ imageRef' = k
            /\ viewport' = FittedViewport(container, ImageById(loads[k].image))
       ELSE UNCHANGED <<konvaImage, imageRef, viewport>>
    /\ lastOp' = [op |-> "onload", load |-> k, image |-> loads[k].image]
    /\ UNCHANGED <<images, bboxes, classes, currentImageId, toolState, hasUnsavedChanges,
                   updatedAt, nextBBoxId, canvasVars, container, stagePos, wheels,
                   netVars, outbox, codec>>

\* the k-th Image fails to load: onerror logs the failure, if still attached
OnError(k) ==
    /\ loads[k].state = "pending"
    /\ loads' = [loads EXCEPT ![k].state = "failed"]
    /\ lastOp' = [op |-> "onerror", load |-> k, image |-> loads[k].image]
    /\ UNCHANGED <<storeVars, canvasVars, konvaImage, imageRef, container, stagePos, wheels,
                   netVars, outbox, codec>>

ShowImageStep == \E id \in ImageIds : ShowImage(id)
OnLoadStep    == \E k \in 1..Len(loads) : OnLoad(k)
OnErrorStep   == \E k \in 1..Len(loads) : OnError(k)

\* the component mounted on the first image: its decode is in flight and the
\* "Loading image..." placeholder is shown
InitLoad ==
    /\ images = LoadImages
    /\ bboxes = <<>>
    /\ classes = << [id |-> 0, name |-> "object"] >>
    /\ currentImageId = "img1"
    /\ toolState = defaultToolState
    /\ viewport = DefaultViewport
    /\ hasUnsavedChanges = FALSE
    /\ updatedAt = 0
    /\ nextBBoxId = 1
    /\ isDrawing = FALSE
    /\ startPoint = NoPoint
    /\ currentRect = NoRect
    /\ loads = << LoadOf("img1", "pending") >>
    /\ konvaImage = 0
    /\ imageRef = 0
    /\ container = DefaultContainer
    /\ stagePos = NoPoint
    /\ wheels = 0
    /\ InitOffline
    /\ codec = CodecIdle
    /\ lastOp = [op |-> "init"]

NextLoad ==
    \/ ShowImageStep \/ OnLoadStep \/ OnErrorStep
    \/ MouseDown \/ MouseMove \/ MouseUp \/ BBoxTransform
    \/ KeyN \/ KeyEscape

SpecLoad == InitLoad /\ [][NextLoad]_vars

-----------------------------------------------------------------------------
(***************************************************************************)
(* Properties of the image-load effect (SpecLoad).                         *)
(***************************************************************************)
\* the step is the decode completion of an image that is not the one shown
LateDecode == lastOp'.op = "onload" /\ lastOp'.image # currentImageId'

\* C11: a decode completion for an image the canvas was switched away from
\* changes neither the displayed bitmap nor the viewport.
C11_LateDecodeIgnored ==
    [][LateDecode => (konvaImage' = konvaImage /\ viewport' = viewport)]_vars

\* the image shown has been decoded and the viewport fitted to it
CurrentImageDecoded ==
    /\ konvaImage # 0
    /\ loads[konvaImage].image = currentImageId

\* C12: a box is created or changed by pointer input only while the current
\* image has been decoded: never between the switch to an image and the
\* completion of its decode, and never after its decode failed.
C12_PointerInputOnlyWhenDecoded ==
    [][(bboxes' # bboxes /\ lastOp'.op \in {"mouseUp", "bboxTransform"})
          => CurrentImageDecoded]_vars

-----------------------------------------------------------------------------
(***************************************************************************)
(* The store and the annotations server: app/api/annotations/route.ts and  *)
(* the store's saveAnnotationToServer, deleteAnnotationFromServer and      *)
(* loadAnnotationsFromServer.  Each fetch is a request in flight that the  *)
(* server handles at some later step, in any order.                        *)
(***************************************************************************)
\* a project loaded from the browser's database: the first image is on
\* Cloudinary and carries a box the server knows, the second is local only
SyncImages ==
    << [id |-> "img1", width |-> ImageWidth, height |-> ImageHeight, status |-> "labeled",
        cloudinary |-> TRUE],
       [id |-> "img2", width |-> ImageWidth, height |-> ImageHeight, status |-> "new",
        cloudinary |-> FALSE] >>

SyncedBBox ==
    [id |-> BBoxId(0), imageId |-> "img1", classId |-> 0,
     x |-> I(1), y |-> I(1), w |-> I(8), h |-> I(8)]

\* annotationData of saveAnnotationToServer: the document the server stores
AnnotationDoc(b) ==
    [id |-> b.id, imageId |-> b.imageId, classId |-> b.classId,
     bbox |-> [x |-> b.x, y |-> b.y, width |-> b.w, height |-> b.h]]

\* the BBox loadAnnotationsFromServer builds from a server annotation
BBoxOfAnnotation(a) ==
    [id |-> a.id, imageId |-> a.imageId, classId |-> a.classId,
     x |-> a.bbox.x, y |-> a.bbox.y, w |-> a.bbox.width, h |-> a.bbox.height]

\* the collection as GET returns it: sort({ createdAt: -1 }); a box's
\* createdAt follows the order in which the boxes were made
RECURSIVE InsertNewestFirst(_, _)
InsertNewestFirst(docs, doc) ==
    IF docs = <<>> \/ doc.id[2] >= Head(docs).id[2] THEN <<doc>> \o docs
    ELSE <<Head(docs)>> \o InsertNewestFirst(Tail(docs), doc)

\* route.ts POST (insertOne), PUT (updateOne by id) and DELETE (deleteOne by id)
ServerHandles(docs, req) ==
    IF req.method = "POST" THEN InsertNewestFirst(docs, AnnotationDoc(req.box))
    ELSE IF req.method = "PUT"
    THEN [k \in 1..Len(docs) |->
             IF docs[k].id = req.box.id THEN AnnotationDoc(req.box) ELSE docs[k]]
    ELSE SelectSeq(docs, LAMBDA d : d.id # req.box.id)

\* the server handles one of the requests in flight; the client only logs
\* the response
Deliver(req) ==
    /\ req \in outbox
    /\ outbox' = outbox \ {req}
    /\ serverAnnotations' = ServerHandles(serverAnnotations, req)
    /\ lastOp' = [op |-> "deliver", method |-> req.method]
    /\ UNCHANGED <<storeVars, canvasVars, loadVars, container, stagePos, wheels,
                   online, fetch, save, isSaving, projVars, codec>>

\* loadAnnotationsFromServer(projectId): the GET is sent
LoadAnnotationsFromServer ==
    /\ fetch.phase = "waiting"
    /\ fetch' = [fetch EXCEPT !.phase = IF online THEN "inflight" ELSE "idle"]
    /\ lastOp' = [op |-> "loadAnnotations"]
    /\ UNCHANGED <<storeVars, canvasVars, loadVars, container, stagePos, wheels,
                   online, outbox, serverAnnotations, save, isSaving, projVars, codec>>

\* route.ts GET: the server answers with the annotations it holds now
FetchRespond ==
    /\ fetch.phase = "inflight"
    /\ fetch' = [phase |-> "responded", annotations |-> serverAnnotations]
    /\ lastOp' = [op |-> "fetchRespond"]
    /\ UNCHANGED <<storeVars, canvasVars, loadVars, container, stagePos, wheels,
                   online, outbox, serverAnnotations, save, isSaving, projVars, codec>>

\* the boxes loadAnnotationsFromServer pushes: one per annotation whose image
\* is in the project
RECURSIVE LoadedBBoxes(_, _)
LoadedBBoxes(annotations, imgs) ==
    IF annotations = <<>> THEN <<>>
    ELSE (IF \E i \in 1..Len(imgs) : imgs[i].id = Head(annotations).imageId
          THEN <<BBoxOfAnnotation(Head(annotations))>> ELSE <<>>)
         \o LoadedBBoxes(Tail(annotations), imgs)

\* image.status = 'labeled' for the image of every box pushed
LoadedStatus(imgs, boxes) ==
    [i \in 1..Len(imgs) |->
        IF \E k \in 1..Len(boxes) : boxes[k].imageId = imgs[i].id
        THEN [imgs[i] EXCEPT !.status = "labeled"] ELSE imgs[i]]

\* loadAnnotationsFromServer after its awaits: the response is applied
FetchApply ==
    /\ fetch.phase = "responded"
    /\ bboxes' = LoadedBBoxes(fetch.annotations, images)
    /\ images' = LoadedStatus(images, bboxes')
    /\ fetch' = FetchIdle
    /\ lastOp' = [op |-> "fetchApply"]
    /\ UNCHANGED <<classes, currentImageId, toolState, viewport, hasUnsavedChanges,
                   updatedAt, nextBBoxId, canvasVars, loadVars, container, stagePos, wheels,
                   online, outbox, serverAnnotations, save, isSaving, projVars, codec>>

DeliverStep == \E req \in outbox : Deliver(req)

\* loadProject(project) has just run: the project is in the store, its first
\* image shown, and the load of the server's annotations is about to start
InitSync ==
    /\ images = SyncImages
    /\ bboxes = << SyncedBBox >>
    /\ classes = << [id |-> 0, name |-> "object"] >>
    /\ currentImageId = "img1"
    /\ toolState = defaultToolState
    /\ viewport = DefaultViewport
    /\ hasUnsavedChanges = FALSE
    /\ updatedAt = 0
    /\ nextBBoxId = 1
    /\ isDrawing = FALSE
    /\ startPoint = NoPoint
    /\ currentRect = NoRect
    /\ InitShown
    /\ online = TRUE
    /\ outbox = {}
    /\ serverAnnotations = << AnnotationDoc(SyncedBBox) >>
    /\ fetch = [phase |-> "waiting", annotations |-> <<>>]
    /\ save = SaveIdle
    /\ isSaving = FALSE
    /\ InitProjectFetch
    /\ codec = CodecIdle
    /\ lastOp = [op |-> "init"]

NextSync ==
    \/ DrawBBox \/ BBoxClick \/ KeyDelete \/ SetCurrentImageStep
    \/ DeliverStep
    \/ LoadAnnotationsFromServer \/ FetchRespond \/ FetchApply

SpecSync == InitSync /\ [][NextSync]_vars

-----------------------------------------------------------------------------
(***************************************************************************)
(* Properties of the store against the server (SpecSync).                  *)
(***************************************************************************)
\* the ids of the boxes in the store
BBoxIds == { bboxes[k].id : k \in 1..Len(bboxes) }

\* C13: a box leaves the store only through removeBBox, the removeImage
\* cascade or the removeClass cascade; applying the response of
\* loadAnnotationsFromServer removes none.
C13_BoxLeavesOnlyByRemoval ==
    [][(BBoxIds \ BBoxIds' # {})
          => lastOp'.op \in {"keyDelete", "removeBBox", "removeImage", "removeClass"}]_vars

-----------------------------------------------------------------------------
(***************************************************************************)
(* lib/store.ts: saveToIndexedDB.  The call reads the project once, then   *)
(* awaits the local write and the POST to /api/projects; any handler may   *)
(* run during each await.  It is called by the Save button, by the         *)
(* 30-second timer of app/page.tsx and at the end of removeImage (after    *)
(* that handler's own await), and no call waits for another.               *)
(***************************************************************************)
\* the most saveToIndexedDB calls in flight at once
MaxSaves == 1

\* get().currentProject: the store is built with the immer middleware, so
\* the value read is never changed by a later set()
Project ==
    [images |-> images, bboxes |-> bboxes, classes |-> classes, updatedAt |-> updatedAt]

\* saveToIndexedDB up to its first await; nothing happens without a project
\* or without unsaved changes
StartSave(limit) ==
    /\ hasUnsavedChanges
    /\ Len(save) < limit
    /\ save' = Append(save, [phase |-> "started", project |-> Project])
    /\ isSaving' = TRUE
    /\ lastOp' = [op |-> "saveStart"]
    /\ UNCHANGED <<storeVars, canvasVars, loadVars, container, stagePos, wheels,
                   online, outbox, serverAnnotations, fetch, projVars, codec>>

SaveToIndexedDB == StartSave(MaxSaves)

\* the project of a save, read from the store again when it is handed over
LiveProject(s) == Project

\* the project a save hands over: the `project` constant of its call
SavedProject(s) == s.project

\* await saveProjectToIDB(project): the local write
SaveLocal(k) ==
    /\ save[k].phase = "started"
    /\ save' = [save EXCEPT ![k].phase = "stored"]
    /\ UNCHANGED isSaving
    /\ lastOp' = [op |-> "saveLocal", save |-> k, project |-> SavedProject(save[k])]
    /\ UNCHANGED <<storeVars, canvasVars, loadVars, container, stagePos, wheels,
                   online, outbox, serverAnnotations, fetch, projVars, codec>>

\* fetch('/api/projects', { method: 'POST', body: JSON.stringify(project) });
\* offline the fetch throws, the error is logged and the call ends
SavePost(k) ==
    /\ save[k].phase = "stored"
    /\ save' = IF online THEN [save EXCEPT ![k].phase = "posted"] ELSE RemoveAt(save, k)
    /\ isSaving' = IF online THEN isSaving ELSE FALSE
    /\ lastOp' = [op |-> "savePost", save |-> k, project |-> SavedProject(save[k])]
    /\ UNCHANGED <<storeVars, canvasVars, loadVars, container, stagePos, wheels,
                   online, outbox, serverAnnotations, fetch, projVars, codec>>

\* the response of the POST: hasUnsavedChanges = false when res.ok
SaveDone(k, ok) ==
    /\ save[k].phase = "posted"
    /\ save' = RemoveAt(save, k)
    /\ isSaving' = FALSE
    /\ hasUnsavedChanges' = IF ok THEN FALSE ELSE hasUnsavedChanges
    /\ lastOp' = [op |-> "saveDone", save |-> k, ok |-> ok]
    /\ UNCHANGED <<images, bboxes, classes, currentImageId, toolState, viewport, updatedAt,
                   nextBBoxId, canvasVars, loadVars, container, stagePos, wheels,
                   online, outbox, serverAnnotations, fetch, projVars, codec>>

SaveLocalStep == \E k \in 1..Len(save) : SaveLocal(k)
SavePostStep  == \E k \in 1..Len(save) : SavePost(k)
SaveDoneStep  == \E k \in 1..Len(save) : \E ok \in BOOLEAN : SaveDone(k, ok)

InitSave ==
    /\ InitProject
    /\ InitShown
    /\ online = TRUE
    /\ outbox = {}
    /\ serverAnnotations = <<>>
    /\ fetch = FetchIdle
    /\ save = SaveIdle
    /\ isSaving = FALSE
    /\ InitProjectFetch
    /\ viewport = DefaultViewport
    /\ codec = CodecIdle

NextSave ==
    \/ SaveToIndexedDB \/ SaveLocalStep \/ SavePostStep \/ SaveDoneStep
    \/ DrawBBox \/ AddClassStep \/ RemoveImageStep

SpecSave == InitSave /\ [][NextSave]_vars

-----------------------------------------------------------------------------
(***************************************************************************)
(* Properties of saveToIndexedDB (SpecSave).                               *)
(***************************************************************************)
\* the step hands a project to the local write or to the POST
HandsOver == lastOp'.op \in {"saveLocal", "savePost"}

\* C14: every project saveToIndexedDB hands to the local write and to the
\* POST is the store's project as it was when that save started, whatever
\* handlers ran during the save's awaits.
C14_SaveSnapshot ==
    [][HandsOver => lastOp'.project = save[lastOp'.save].project]_vars

\* a save posted a project that the store had already moved on from: a box,
\* a class or an image changed between the start of the save and the POST
C14_Witness ==
    /\ lastOp.op = "savePost"
    /\ lastOp.project # Project
    /\ lastOp.project.bboxes # bboxes

-----------------------------------------------------------------------------
(***************************************************************************)
(* lib/store.ts: updateBBox, removeBBox and removeImage called with any    *)
(* id, also one the store does not (or no longer) hold, as happens when a  *)
(* deletion overtakes a handler that still carries the id.                 *)
(***************************************************************************)
\* the box ids a caller may hold: every id ever made, and one never made
CallBBoxIds == { BBoxId(n) : n \in 1..(MaxStoreBoxes + 1) }

\* the image ids a caller may hold: the project's first images, and one it
\* never had
CallImageIds == { InitialImages[i].id : i \in 1..Len(InitialImages) } \cup {"img3"}

\* the rectangle a programmatic update sets
MovedRect == [x |-> I(2), y |-> I(2), w |-> I(6), h |-> I(6)]

\* updateBBox(bboxId, updates)
UpdateBBoxCall(bboxId) ==
    /\ updateBBox(bboxId, MovedRect)
    /\ lastOp' = [op |-> "updateBBox", id |-> bboxId, known |-> bboxId \in BBoxIds]
    /\ UNCHANGED <<images, classes, currentImageId, toolState, viewport,
                   nextBBoxId, canvasVars, codec, sideVars, stagePos>>

\* removeBBox(bboxId)
RemoveBBoxCall(bboxId) ==
    /\ removeBBox(bboxId, FALSE)
    /\ lastOp' = [op |-> "removeBBox", id |-> bboxId, known |-> bboxId \in BBoxIds]
    /\ UNCHANGED <<classes, currentImageId, viewport, nextBBoxId, canvasVars, codec,
                   sideVars, stagePos>>

\* removeImage(imageId): `if (imageIndex === -1) return` for an unknown id
RemoveImageCall(imageId) ==
    IF imageId \in ImageIds
    THEN RemoveImage(imageId)
    ELSE /\ lastOp' = [op |-> "removeImage", id |-> imageId, removed |-> 0]
         /\ UNCHANGED <<storeVars, canvasVars, codec, sideVars, outbox, stagePos>>

UpdateBBoxStep  == \E id \in CallBBoxIds : UpdateBBoxCall(id)
RemoveBBoxStep  == \E id \in CallBBoxIds : RemoveBBoxCall(id)
RemoveImageCallStep == \E id \in CallImageIds : RemoveImageCall(id)

NextCalls ==
    \/ DrawBBox \/ SetCurrentImageStep
    \/ UpdateBBoxStep \/ RemoveBBoxStep \/ RemoveImageCallStep

SpecCalls == InitStore /\ [][NextCalls]_vars

-----------------------------------------------------------------------------
(***************************************************************************)
(* Properties of calls with unknown ids (SpecCalls).                       *)
(***************************************************************************)
\* the step is a call of updateBBox, removeBBox or removeImage with an id
\* that the store does not hold when the call is made
UnknownIdCall ==
    \/ lastOp'.op \in {"updateBBox", "removeBBox"} /\ lastOp'.id \notin BBoxIds
    \/ lastOp'.op = "removeImage" /\ lastOp'.id \notin ImageIds

\* C15: updateBBox, removeBBox and removeImage with an id that is not in the
\* store complete and leave images, boxes, classes, selection, the shown
\* image, updatedAt and hasUnsavedChanges unchanged.
C15_UnknownIdNoOp ==
    [][UnknownIdCall =>
          UNCHANGED <<images, bboxes, classes, toolState, currentImageId,
                      updatedAt, hasUnsavedChanges>>]_vars

\* a call for a box that was removed before, made while another box is
\* selected in a project with unsaved boxes
C15_Witness ==
    /\ lastOp.op \in {"updateBBox", "removeBBox"}
    /\ ~lastOp.known
    /\ lastOp.id[2] < nextBBoxId
    /\ toolState.selectedBBoxId # NoBBox
    /\ bboxes # <<>>

-----------------------------------------------------------------------------
(***************************************************************************)
(* Invariants of the data model (SpecStore).                               *)
(***************************************************************************)
\* the image owns at least one box of the store
HasBBox(img) == \E k \in 1..Len(bboxes) : bboxes[k].imageId = img.id

\* C16: in every state of the store an image's status is 'labeled' exactly
\* when at least one box of the store has that image's id.
C16_StatusDerivedFromBoxes ==
    \A i \in 1..Len(images) : (images[i].status = "labeled") <=> HasBBox(images[i])

\* C17: in every state of the store the class ids are exactly 0..N-1 for a
\* class list of length N.
C17_ClassIdsDense ==
    ClassIds = 0..(Len(classes) - 1)

-----------------------------------------------------------------------------
(***************************************************************************)
(* components/CanvasStage.tsx: the viewport.  handleWheel zooms about the  *)
(* pointer; in pan mode the Stage is draggable and Konva moves the stage   *)
(* node itself.                                                            *)
(***************************************************************************)
\* the most wheel events in a run
MaxWheel == 3

\* how far, in pixels, the drags of one pan carry the stage on either axis
MaxPan == 10

\* a container k times the size of the image
ContainerOf(k) == [width |-> k * ImageWidth, height |-> k * ImageHeight]

\* containers the canvas is given (getBoundingClientRect of its parent): one
\* nine times the image, and one forty times, as is the first 800 x 600
\* container of app/page.tsx for an image 20 pixels wide
Containers == { ContainerOf(9), ContainerOf(40) }

\* stage.getPointerPosition() of a wheel event, or the centre of the
\* container when it is null
WheelPointers(cont) ==
    { <<I(0), I(0)>>, <<I(90), I(70)>>,
      <<RDiv(I(cont.width), I(2)), RDiv(I(cont.height), I(2))>> }

\* const scaleBy = 1.05; const maxScale = 5
scaleBy  == <<21, 20>>
maxScale == I(5)

\* const minScale = Math.min(containerWidth / image.width,
\*                           containerHeight / image.height) * 0.1
MinScale(cont, image) ==
    RMul(MathMin(RDiv(I(cont.width), I(image.width)),
                 RDiv(I(cont.height), I(image.height))), <<1, 10>>)

\* e.evt.deltaY > 0 ? oldScale / scaleBy : oldScale * scaleBy
NewScale(oldScale, deltaY) ==
    IF deltaY > 0 THEN RDiv(oldScale, scaleBy) ELSE RMul(oldScale, scaleBy)

\* the new position computed from the scale before clamping
NewPosUnclamped(pointer, mousePointTo, newScale, clampedScale) ==
    [x |-> RSub(pointer[1], RMul(mousePointTo.x, newScale)),
     y |-> RSub(pointer[2], RMul(mousePointTo.y, newScale))]

\* newPos: pointer - mousePointTo * clampedScale
NewPos(pointer, mousePointTo, newScale, clampedScale) ==
    [x |-> RSub(pointer[1], RMul(mousePointTo.x, clampedScale)),
     y |-> RSub(pointer[2], RMul(mousePointTo.y, clampedScale))]

\* the viewport handleWheel sets
ZoomedViewport(vp, pointer, deltaY, cont, image) ==
    LET oldScale     == vp.scale
        newScale     == NewScale(oldScale, deltaY)
        clampedScale == clamp(newScale, MinScale(cont, image), maxScale)
        mousePointTo == [x |-> RDiv(RSub(pointer[1], vp.x), oldScale),
                         y |-> RDiv(RSub(pointer[2], vp.y), oldScale)]
        newPos       == NewPos(pointer, mousePointTo, newScale, clampedScale)
    IN  [scale |-> clampedScale, x |-> newPos.x, y |-> newPos.y]

\* handleWheel: onWheel of the Stage
HandleWheel(pointer, deltaY) ==
    /\ wheels < MaxWheel
    /\ wheels' = wheels + 1
    /\ viewport' = ZoomedViewport(viewport, pointer, deltaY, container, CurrentImage)
    /\ lastOp' = [op |-> "wheel", pointer |-> pointer, deltaY |-> deltaY,
                  before |-> stageToImage(pointer[1], pointer[2]),
                  newScale |-> NewScale(viewport.scale, deltaY)]
    /\ UNCHANGED <<images, bboxes, classes, currentImageId, toolState, hasUnsavedChanges,
                   updatedAt, nextBBoxId, canvasVars, loadVars, container, stagePos,
                   netVars, outbox, codec>>

\* screen deltas of a drag
PanDeltas == { <<10, 5>>, <<-10, -5>> }

\* a drag of the Stage in pan mode (draggable={toolState.mode === 'pan'}):
\* Konva moves the stage node; the Stage has no drag handler
PanDrag(delta) ==
    LET dragged == <<stagePos.dragged[1] + delta[1], stagePos.dragged[2] + delta[2]>>
    IN  /\ toolState.mode = "pan"
        /\ Abs(dragged[1]) <= MaxPan /\ Abs(dragged[2]) <= MaxPan
        /\ stagePos' = [x |-> RAdd(stagePos.x, I(delta[1])),
                        y |-> RAdd(stagePos.y, I(delta[2])),
                        dragged |-> dragged]
        /\ lastOp' = [op |-> "panDrag", dx |-> delta[1], dy |-> delta[2]]
        /\ UNCHANGED <<storeVars, canvasVars, loadVars, container, wheels,
                       netVars, outbox, codec>>

Wheel   == StageShown /\ \E pointer \in WheelPointers(container) : \E deltaY \in {-1, 1} :
               HandleWheel(pointer, deltaY)
PanStep == StageShown /\ \E delta \in PanDeltas : PanDrag(delta)

\* the viewport after zooming in from the fitted viewport, at the corner of
\* the image, until the maximum holds the scale
ZoomedInViewport(cont, image) == [FittedViewport(cont, image) EXCEPT !.scale = maxScale]

\* the first image decoded and fitted in its container, or zoomed in on it
InitView ==
    /\ InitProject
    /\ loads = << LoadOf("img1", "loaded") >>
    /\ konvaImage = 1
    /\ imageRef = 1
    /\ container \in Containers
    /\ viewport \in { FittedViewport(container, InitialImages[1]),
                      ZoomedInViewport(container, InitialImages[1]) }
    /\ stagePos = NoPoint
    /\ wheels = 0
    /\ InitOffline
    /\ codec = CodecIdle

NextView == Wheel \/ PanStep \/ KeySpaceDown \/ KeySpaceUp

SpecView == InitView /\ [][NextView]_vars

-----------------------------------------------------------------------------
(***************************************************************************)
(* Properties of the viewport (SpecView).                                  *)
(***************************************************************************)
\* C18: after a wheel zoom at a pointer position, stageToImage of that
\* position under the new viewport is what it was under the old one, also
\* when the scale was clamped (in exact arithmetic: up to the rounding of
\* the floating-point operations).
C18_AnchorInvariance ==
    lastOp.op = "wheel" => stageToImage(lastOp.pointer[1], lastOp.pointer[2]) = lastOp.before

\* a wheel event that zoomed out and was held at the minimum scale, at a
\* pointer off the image origin
C18_Witness ==
    /\ lastOp.op = "wheel"
    /\ lastOp.deltaY > 0
    /\ viewport.scale # lastOp.newScale
    /\ viewport.scale = MinScale(container, CurrentImage)
    /\ container = ContainerOf(9)
    /\ lastOp.before.x # I(0)
    /\ stageToImage(lastOp.pointer[1], lastOp.pointer[2]) = lastOp.before

\* C19: from the fitted viewport on, the scale stays within [minScale, 5],
\* and a wheel event multiplies or divides it by 1.05 unless it is held at
\* one of the two bounds.
C19_ScaleWithinBounds ==
    /\ RLe(MinScale(container, CurrentImage), viewport.scale)
    /\ RLe(viewport.scale, maxScale)
    /\ lastOp.op = "wheel" =>
          \/ viewport.scale = lastOp.newScale
          \/ viewport.scale \in {MinScale(container, CurrentImage), maxScale}

\* C20: a drag by (dx, dy) in pan mode moves the translation that
\* stageToImage uses by (dx, dy) and leaves the scale and the boxes alone.
C20_PanMovesViewport ==
    [][lastOp'.op = "panDrag" =>
          /\ viewport'.x = RAdd(viewport.x, I(lastOp'.dx))
          /\ viewport'.y = RAdd(viewport.y, I(lastOp'.dy))
          /\ viewport'.scale = viewport.scale
          /\ bboxes' = bboxes]_vars

-----------------------------------------------------------------------------
(***************************************************************************)
(* components/CanvasStage.tsx: moving and resizing a box.  The Rect of a   *)
(* box is a child of the Stage, which carries the viewport's scale and     *)
(* offset, and is given x={bbox.x} y={bbox.y} width={bbox.w}               *)
(* height={bbox.h}: its attributes are in image pixels.                    *)
(***************************************************************************)
\* the boxes of a project as importProjects / loadProject hand them to the
\* store: three boxes on img1, one of them locked and one hidden
ProjectBBoxes ==
    << [id |-> BBoxId(11), imageId |-> "img1", classId |-> 0,
        x |-> I(8), y |-> I(4), w |-> I(6), h |-> I(6)],
       [id |-> BBoxId(12), imageId |-> "img1", classId |-> 0,
        x |-> I(1), y |-> I(1), w |-> I(6), h |-> I(6), locked |-> TRUE],
       [id |-> BBoxId(13), imageId |-> "img1", classId |-> 0,
        x |-> I(14), y |-> I(1), w |-> I(5), h |-> I(5), hidden |-> TRUE] >>

ProjectImages == SetImageStatus(InitialImages, "img1", "labeled")

\* viewports of the canvas zoomed out to a tenth and zoomed in to the maximum
ZoomViewports ==
    { [scale |-> <<1, 10>>, x |-> <<-3, 2>>, y |-> <<-11, 10>>],
      [scale |-> I(5), x |-> I(-10), y |-> I(-5)] }

\* those and the canvas at 1:1
EditViewports == ZoomViewports \cup { [scale |-> I(1), x |-> I(0), y |-> I(0)] }

\* how far the pointer drags a box, in screen pixels
DragDeltas == { <<5, 0>>, <<0, 5>>, <<-10, -10>>, <<100, 100>> }

\* the sizes a resize by the bottom-right anchor asks for, in image pixels
ResizeRequests ==
    { [w |-> I(2), h |-> I(2)], [w |-> I(4), h |-> I(8)],
      [w |-> I(8), h |-> I(8)], [w |-> <<1, 2>>, h |-> <<1, 2>>] }

\* e.target.attrs of a box's Rect before a gesture, for a node that has not
\* been scaled yet
NodeAttrs(b) ==
    [x |-> b.x, y |-> b.y, width |-> b.w, height |-> b.h, scaleX |-> I(1), scaleY |-> I(1)]

\* e.target.attrs at onDragEnd: the node has followed the pointer, so its
\* position, which is relative to the scaled Stage, moved by delta / scale
DragAttrs(b, delta) ==
    [NodeAttrs(b) EXCEPT !.x = RAdd(b.x, RDiv(I(delta[1]), viewport.scale)),
                         !.y = RAdd(b.y, RDiv(I(delta[2]), viewport.scale))]

\* the box the Transformer hands to boundBoxFunc for those node attributes:
\* its size in absolute (screen) pixels
AbsoluteBox(attrs) ==
    [width  |-> RMul(RMul(attrs.width, attrs.scaleX), viewport.scale),
     height |-> RMul(RMul(attrs.height, attrs.scaleY), viewport.scale),
     attrs  |-> attrs]

\* boundBoxFunc(oldBox, newBox) of the Transformer
boundBoxFunc(oldBox, newBox) ==
    IF RLt(newBox.width, I(5)) \/ RLt(newBox.height, I(5)) THEN oldBox ELSE newBox

\* e.target.attrs at onTransform: the Transformer resizes a node by scaling it
ResizeAttrs(b, req) ==
    LET old == NodeAttrs(b)
        new == [old EXCEPT !.scaleX = RDiv(req.w, b.w), !.scaleY = RDiv(req.h, b.h)]
    IN  boundBoxFunc(AbsoluteBox(old), AbsoluteBox(new)).attrs

\* onDragEnd of a box's Rect (draggable in select mode), the first gesture on
\* that node
HandleDragEnd(bboxId, delta) ==
    /\ toolState.mode = "select"
    /\ bboxId \notin lastOp.edited
    /\ updateBBox(bboxId, TransformedRect(DragAttrs(BBoxById(bboxes, bboxId), delta), CurrentImage))
    /\ lastOp' = [op |-> "dragEnd", id |-> bboxId, delta |-> delta,
                   edited |-> lastOp.edited \cup {bboxId}]
    /\ UNCHANGED <<images, classes, currentImageId, toolState, viewport,
                   nextBBoxId, canvasVars, codec, sideVars, stagePos>>

\* onTransform of the selected box's Rect (the Transformer is rendered in
\* select mode and attached to the selected node), the first gesture on that
\* node
HandleResize(bboxId, req) ==
    /\ toolState.mode = "select"
    /\ toolState.selectedBBoxId = bboxId
    /\ bboxId \notin lastOp.edited
    /\ updateBBox(bboxId, TransformedRect(ResizeAttrs(BBoxById(bboxes, bboxId), req), CurrentImage))
    /\ lastOp' = [op |-> "resize", id |-> bboxId, req |-> req,
                   edited |-> lastOp.edited \cup {bboxId}]
    /\ UNCHANGED <<images, classes, currentImageId, toolState, viewport,
                   nextBBoxId, canvasVars, codec, sideVars, stagePos>>

DragEnd == StageShown /\ \E id \in ListeningBBoxIds : \E d \in DragDeltas : HandleDragEnd(id, d)
Resize  == StageShown /\ \E id \in ListeningBBoxIds : \E r \in ResizeRequests : HandleResize(id, r)

\* the project loaded and img1 decoded and on the canvas, nothing drawn yet
InitLoadedProject ==
    /\ images = ProjectImages
    /\ bboxes = ProjectBBoxes
    /\ classes = << [id |-> 0, name |-> "object"], [id |-> 1, name |-> "other"] >>
    /\ currentImageId = "img1"
    /\ hasUnsavedChanges = FALSE
    /\ updatedAt = 0
    /\ nextBBoxId = 1
    /\ isDrawing = FALSE
    /\ startPoint = NoPoint
    /\ currentRect = NoRect
    /\ InitShown
    /\ InitOffline
    /\ codec = CodecIdle

InitDrag ==
    /\ InitLoadedProject
    /\ viewport \in EditViewports
    /\ toolState \in { setSelectedBBox(defaultToolState, sel) :
                         sel \in {NoBBox, BBoxId(11), BBoxId(13)} }
    /\ lastOp = [op |-> "init", edited |-> {}]

NextDrag == DragEnd \/ Resize

SpecDrag == InitDrag /\ [][NextDrag]_vars

\* C21: a drag-move of a box by the screen delta (dx, dy) at scale s stores
\* the old top-left corner plus (dx / s, dy / s), clamped so that the box stays
\* inside the image, and leaves the box's w and h as they were.
C21_DragMovesByScaledDelta ==
    [][ lastOp'.op = "dragEnd" =>
          LET old == BBoxById(bboxes, lastOp'.id)
              new == BBoxById(bboxes', lastOp'.id)
              mx  == RAdd(old.x, RDiv(I(lastOp'.delta[1]), viewport.scale))
              my  == RAdd(old.y, RDiv(I(lastOp'.delta[2]), viewport.scale))
          IN  /\ new.w = old.w /\ new.h = old.h
              /\ new.x = clamp(mx, I(0), RSub(I(CurrentImage.width), old.w))
              /\ new.y = clamp(my, I(0), RSub(I(CurrentImage.height), old.h)) ]_vars

\* C22: a resize that asks for a width or a height below 5 image pixels is
\* rejected at every viewport scale: the stored box keeps the size it had.
C22_SmallResizeRejected ==
    [][ (lastOp'.op = "resize"
           /\ (RLt(lastOp'.req.w, I(5)) \/ RLt(lastOp'.req.h, I(5)))) =>
          LET old == BBoxById(bboxes, lastOp'.id)
              new == BBoxById(bboxes', lastOp'.id)
          IN  new.w = old.w /\ new.h = old.h ]_vars

-----------------------------------------------------------------------------
(***************************************************************************)
(* components/CanvasStage.tsx: the pointer on a canvas that already holds  *)
(* boxes, at the three zoom levels.                                        *)
(***************************************************************************)
\* stage.getPointerPosition() over the background, over the locked box, over
\* the unlocked box and outside the image, depending on the viewport
EditPointers == { <<0, 0>>, <<20, 20>>, <<25, 25>>, <<40, 40>> }

\* the locked boxes of the image shown whose Rect lies under that image point
LockedUnder(imagePos) ==
    LET shown == getBBoxesForImage(currentImageId)
    IN  { shown[i].id :
            i \in { j \in 1..Len(shown) :
                      /\ IsLocked(shown[j])
                      /\ RLe(shown[j].x, imagePos.x)
                      /\ RLe(imagePos.x, RAdd(shown[j].x, shown[j].w))
                      /\ RLe(shown[j].y, imagePos.y)
                      /\ RLe(imagePos.y, RAdd(shown[j].y, shown[j].h)) } }

\* handleMouseDown whatever the target: it returns at once in pan mode, and
\* does nothing when e.target is the Rect of a box (neither the stage nor the
\* background image)
HandlePointerDown(pos) ==
    LET imagePos == stageToImage(I(pos[1]), I(pos[2]))
        target   == HitBBox(imagePos)
    IN  /\ IF toolState.mode # "pan" /\ target = NoBBox
           THEN /\ IF toolState.mode = "draw"
                   THEN /\ isDrawing' = TRUE
                        /\ startPoint' = imagePos
                        /\ currentRect' = [x |-> imagePos.x, y |-> imagePos.y,
                                            w |-> I(0), h |-> I(0)]
                   ELSE UNCHANGED <<isDrawing, startPoint, currentRect>>
                /\ toolState' = setSelectedBBox(toolState, NoBBox)
           ELSE UNCHANGED <<isDrawing, startPoint, currentRect, toolState>>
        /\ lastOp' = [op |-> "pointerDown", target |-> target,
                       through |-> LockedUnder(imagePos)]
        /\ UNCHANGED <<images, bboxes, classes, currentImageId, viewport,
                       hasUnsavedChanges, updatedAt, nextBBoxId, codec, sideVars, outbox, stagePos>>

PointerDown == StageShown /\ \E pos \in EditPointers : HandlePointerDown(pos)
PointerMove == StageShown /\ \E pos \in EditPointers : HandleMouseMove(pos)

InitPointer ==
    /\ InitLoadedProject
    /\ viewport \in ZoomViewports
    /\ toolState = defaultToolState
    /\ lastOp = [op |-> "init"]

NextPointer ==
    \/ PointerDown \/ PointerMove \/ MouseUp
    \/ BBoxClick \/ KeyN \/ KeyEscape \/ SetSelectedClassStep

SpecPointer == InitPointer /\ [][NextPointer]_vars

\* C23: a draw gesture whose rectangle is exactly 5 x 5 image pixels commits
\* a box at viewport scale 0.1 and at scale 5.0, and a 4 x 4 rectangle is
\* discarded at every scale.
C23_FiveByFiveCommits ==
    [][ (lastOp'.op = "mouseUp" /\ isDrawing /\ currentRect # NoRect) =>
          /\ (/\ currentRect.w = I(5) /\ currentRect.h = I(5)
              /\ viewport.scale \in {<<1, 10>>, I(5)})
                => (Len(bboxes') = Len(bboxes) + 1 /\ lastOp'.committed)
          /\ (currentRect.w = I(4) /\ currentRect.h = I(4)) => bboxes' = bboxes ]_vars

\* C24: a box committed by a draw gesture carries the class id selected at
\* pointer-up and the id of the image on the canvas, and right after the
\* commit it is the selected box.
C24_CommittedBoxClassAndSelection ==
    [][ (lastOp'.op = "mouseUp" /\ lastOp'.committed) =>
          LET b == bboxes'[Len(bboxes')]
          IN  /\ Len(bboxes') = Len(bboxes) + 1
              /\ b.classId = toolState.selectedClassId
              /\ b.imageId = currentImageId
              /\ \A i \in 1..Len(bboxes) : bboxes[i].id # b.id
              /\ toolState'.selectedBBoxId = b.id ]_vars

\* C24 witness: a box was committed under the second class, chosen after the
\* project was loaded, while another box had been selected, and it is now the
\* selected box
C24_Witness ==
    /\ JustCommitted
    /\ bboxes[Len(bboxes)].classId = 1
    /\ bboxes[Len(bboxes)].imageId = currentImageId
    /\ toolState.selectedBBoxId = bboxes[Len(bboxes)].id
    /\ Len(bboxes) = Len(ProjectBBoxes) + 1

\* C25: in select mode a click on an unlocked box makes it the selected box
\* and a pointer-down on the background clears the selection; a locked box is
\* never selected by the pointer (a pointer-down over it goes through to what
\* lies beneath); in draw mode a pointer-down on a box neither starts a draw
\* nor changes the selection.
C25_SelectionByPointer ==
    [][ /\ lastOp'.op = "bboxClick" =>
             /\ toolState.mode = "select"
             /\ ~IsLocked(BBoxById(bboxes, lastOp'.id))
             /\ toolState'.selectedBBoxId = lastOp'.id
        /\ (lastOp'.op = "pointerDown" /\ toolState.mode = "select"
              /\ lastOp'.target = NoBBox) =>
             toolState'.selectedBBoxId = NoBBox
        /\ (lastOp'.op \in {"bboxClick", "pointerDown"}
              /\ toolState'.selectedBBoxId # toolState.selectedBBoxId) =>
             \A i \in 1..Len(bboxes') :
                bboxes'[i].id = toolState'.selectedBBoxId => ~IsLocked(bboxes'[i])
        /\ (lastOp'.op = "pointerDown" /\ toolState.mode = "draw"
              /\ lastOp'.target # NoBBox) =>
             /\ UNCHANGED <<isDrawing, startPoint, currentRect>>
             /\ toolState'.selectedBBoxId = toolState.selectedBBoxId ]_vars

\* C25 witness: in select mode the pointer went down over the locked box
\* alone, the event reached the background, and no box is selected
C25_Witness ==
    /\ lastOp.op = "pointerDown"
    /\ lastOp.through = {BBoxId(12)} /\ lastOp.target = NoBBox
    /\ toolState.mode = "select"
    /\ toolState.selectedBBoxId = NoBBox

-----------------------------------------------------------------------------
(***************************************************************************)
(* components/CanvasStage.tsx: the window's keydown and keyup listeners,   *)
(* whatever the key and whatever element has the focus.                    *)
(***************************************************************************)
\* e.key of the events
Keys == { "Delete", "Backspace", "n", "N", "Escape", " ", "1", "2", "9" }

\* e.target: the page, a text input (the class name field), a textarea
Targets == { "body", "input", "textarea" }

\* e.target instanceof HTMLInputElement || e.target instanceof HTMLTextAreaElement
IsTextField(target) == target \in {"input", "textarea"}

\* the default branch of handleKeyDown: the class a digit key selects, when
\* there is one
DigitClass(key) ==
    LET num == parseInt(<<key>>)
    IN  IF ~num.nan /\ num.val >= 1 /\ num.val <= 9 /\ num.val <= Len(classes)
        THEN {classes[num.val].id} ELSE {}

\* handleKeyDown
HandleKeyDown(key, target, repeat) ==
    /\ lastOp' = [op |-> "keyDown", key |-> key, target |-> target, repeat |-> repeat,
                   from |-> toolState.mode]
    /\ IF IsTextField(target)
       THEN UNCHANGED <<bboxes, images, toolState, hasUnsavedChanges, updatedAt, outbox, stagePos>>
       ELSE CASE key \in {"Delete", "Backspace"} ->
                   IF toolState.selectedBBoxId # NoBBox
                   THEN /\ removeBBox(toolState.selectedBBoxId, TRUE)
                        /\ UNCHANGED stagePos
                   ELSE UNCHANGED <<bboxes, images, toolState, hasUnsavedChanges, updatedAt,
                                    outbox, stagePos>>
              [] key \in {"n", "N"} ->
                   /\ toolState' = setToolMode(toolState, "draw")
                   /\ stagePos' \in StagePositions("draw")
                   /\ UNCHANGED <<bboxes, images, hasUnsavedChanges, updatedAt, outbox>>
              [] key = "Escape" ->
                   /\ toolState' = setToolMode(setSelectedBBox(toolState, NoBBox), "select")
                   /\ stagePos' \in StagePositions("select")
                   /\ UNCHANGED <<bboxes, images, hasUnsavedChanges, updatedAt, outbox>>
              [] key = " " ->
                   /\ toolState' = IF repeat THEN toolState ELSE setToolMode(toolState, "pan")
                   /\ stagePos' \in StagePositions(toolState'.mode)
                   /\ UNCHANGED <<bboxes, images, hasUnsavedChanges, updatedAt, outbox>>
              [] OTHER ->
                   /\ toolState' = IF DigitClass(key) = {} THEN toolState
                                   ELSE [toolState EXCEPT !.selectedClassId =
                                            CHOOSE c \in DigitClass(key) : TRUE]
                   /\ UNCHANGED <<bboxes, images, hasUnsavedChanges, updatedAt, outbox, stagePos>>
    /\ UNCHANGED <<classes, currentImageId, viewport, nextBBoxId, canvasVars, codec, sideVars>>

\* handleKeyUp; `held` notes the mode in which the Space now released went down
HandleKeyUp(key, target) ==
    /\ lastOp' = [op |-> "keyUp", key |-> key, target |-> target,
                   held |-> IF key = " " /\ lastOp.op = "keyDown" /\ lastOp.key = " "
                            THEN lastOp.from ELSE "unknown"]
    /\ toolState' = IF key = " " THEN setToolMode(toolState, "select") ELSE toolState
    /\ stagePos' \in StagePositions(toolState'.mode)
    /\ UNCHANGED <<images, bboxes, classes, currentImageId, viewport,
                   hasUnsavedChanges, updatedAt, nextBBoxId, canvasVars, codec, sideVars, outbox>>

KeyDown == \E key \in Keys : \E target \in Targets : \E repeat \in BOOLEAN :
              HandleKeyDown(key, target, repeat)
KeyUp   == \E key \in Keys : \E target \in Targets : HandleKeyUp(key, target)

InitKeys ==
    /\ InitLoadedProject
    /\ viewport = DefaultViewport
    /\ toolState = defaultToolState
    /\ lastOp = [op |-> "init"]

NextKeys == KeyDown \/ KeyUp \/ BBoxClick

SpecKeys == InitKeys /\ [][NextKeys]_vars

\* a key event that reaches the canvas: the focus is not in a text field
OnCanvas(key) == lastOp'.op = "keyDown" /\ lastOp'.key = key /\ ~IsTextField(lastOp'.target)

\* C26: Delete or Backspace with a box selected removes exactly that box from
\* the store and leaves the selection empty; with no box selected the key
\* leaves the box list and the selection as they are.
C26_DeleteRemovesSelected ==
    [][ (OnCanvas("Delete") \/ OnCanvas("Backspace")) =>
          IF toolState.selectedBBoxId # NoBBox
          THEN /\ bboxes' = SelectSeq(bboxes, LAMBDA b : b.id # toolState.selectedBBoxId)
               /\ Len(bboxes') = Len(bboxes) - 1
               /\ toolState'.selectedBBoxId = NoBBox
          ELSE /\ bboxes' = bboxes
               /\ toolState'.selectedBBoxId = NoBBox ]_vars

\* C26 witness: Backspace removed the selected first box of three; the other
\* two are left, in their order, and nothing is selected
C26_Witness ==
    /\ lastOp.op = "keyDown" /\ lastOp.key = "Backspace" /\ lastOp.target = "body"
    /\ bboxes = SubSeq(ProjectBBoxes, 2, 3)
    /\ toolState.selectedBBoxId = NoBBox
    /\ hasUnsavedChanges

\* C27: from any mode N sets mode draw, Escape sets mode select and clears
\* the selection, a Space key-down that is not a repeat sets mode pan, and a
\* Space key-up sets mode select whatever the mode was before.
C27_KeyboardModes ==
    [][ /\ (OnCanvas("n") \/ OnCanvas("N")) => toolState'.mode = "draw"
        /\ OnCanvas("Escape") =>
             toolState'.mode = "select" /\ toolState'.selectedBBoxId = NoBBox
        /\ (OnCanvas(" ") /\ ~lastOp'.repeat) => toolState'.mode = "pan"
        /\ (lastOp'.op = "keyUp" /\ lastOp'.key = " ") => toolState'.mode = "select" ]_vars

\* C27 witness: Space went down in draw mode and has been released: the mode
\* is select, not draw
C27_Witness ==
    /\ lastOp.op = "keyUp" /\ lastOp.key = " " /\ lastOp.held = "draw"
    /\ toolState.mode = "select"

\* C28: while a text input or a textarea is the target, no keyboard event,
\* key-down or key-up, changes the tool mode, the selection, the selected
\* class or the box list.
C28_TextFieldSuppressesKeys ==
    [][ (lastOp'.op \in {"keyDown", "keyUp"} /\ IsTextField(lastOp'.target)) =>
          /\ toolState'.mode = toolState.mode
          /\ toolState'.selectedBBoxId = toolState.selectedBBoxId
          /\ toolState'.selectedClassId = toolState.selectedClassId
          /\ bboxes' = bboxes ]_vars

\* {bboxes.map(...)}: the Rects the canvas renders, one for every box of the
\* image shown, each with its opacity and whether it takes pointer events
RenderedRects ==
    { [id        |-> getBBoxesForImage(currentImageId)[i].id,
       opacity   |-> IF IsHidden(getBBoxesForImage(currentImageId)[i]) THEN <<3, 10>> ELSE I(1),
       listening |-> ~IsLocked(getBBoxesForImage(currentImageId)[i])] :
        i \in 1..Len(getBBoxesForImage(currentImageId)) }

\* C29: a box with hidden = true is never among the rectangles rendered for
\* the current image, and every box of the image that is not hidden is.
C29_HiddenNotRendered ==
    StageShown =>
        \A i \in 1..Len(bboxes) :
            bboxes[i].imageId = currentImageId =>
                (IsHidden(bboxes[i]) <=> bboxes[i].id \notin { r.id : r \in RenderedRects })

-----------------------------------------------------------------------------
(***************************************************************************)
(* lib/yolo.ts: generateClassesTxt.                                        *)
(***************************************************************************)
\* the largest class id of the class lists written out
MaxTxtId == 3

\* class names, as texts
TxtNames == { <<"d", "o", "g">>, <<"c", "a", "t">> }

\* [...classes].sort((a, b) => a.id - b.id): a stable sort by id
RECURSIVE SortById(_)
SortById(cls) ==
    IF cls = <<>> THEN <<>>
    ELSE LET front  == SortById(SubSeq(cls, 1, Len(cls) - 1))
             last   == cls[Len(cls)]
             before == SelectSeq(front, LAMBDA c : c.id <= last.id)
             after  == SelectSeq(front, LAMBDA c : c.id > last.id)
         IN  before \o <<last>> \o after

\* sortedClasses.forEach(cls => { classNames[cls.id] = cls.name })
RECURSIVE AssignNames(_, _)
AssignNames(classNames, sorted) ==
    IF sorted = <<>> THEN classNames
    ELSE AssignNames([classNames EXCEPT ![Head(sorted).id + 1] = Head(sorted).name],
                     Tail(sorted))

\* the names of the sorted classes joined as they come, without a line for an
\* id that no class has
JoinSortedNames(cls) ==
    Join([i \in 1..Len(cls) |-> SortById(cls)[i].name], <<NL>>)

\* generateClassesTxt(classes)
generateClassesTxt(cls) ==
    LET sortedClasses == SortById(cls)
        maxId         == MaxOfIds(sortedClasses)
        filled        == [i \in 1..(maxId + 1) |-> <<>>]
    IN  Join(AssignNames(filled, sortedClasses), <<NL>>)

\* class lists with distinct ids up to MaxTxtId, in any order
RECURSIVE ClassListsOver(_)
ClassListsOver(ids) ==
    {<<>>} \cup
    UNION { { <<[id |-> k, name |-> n]>> \o rest :
                n \in TxtNames, rest \in ClassListsOver(ids \ {k}) } : k \in ids }

ClassLists == ClassListsOver(0..MaxTxtId)

\* lines.forEach((line, index) => ...) of parseClassesTxt, from line `index` on
RECURSIVE ParseClassLines(_, _)
ParseClassLines(lines, index) ==
    IF index >= Len(lines) THEN <<>>
    ELSE LET name == Trim(lines[index + 1])
         IN  (IF name # <<>> THEN << [id |-> index, name |-> name] >> ELSE <<>>)
               \o ParseClassLines(lines, index + 1)

\* the non-empty lines numbered in sequence, whatever line they stand on
\* (a faulty variant)
SequentialClasses(content) ==
    LET found == ParseClassLines(SplitLines(content), 0)
    IN  [k \in 1..Len(found) |-> [id |-> k - 1, name |-> found[k].name]]

\* parseClassesTxt(content)
parseClassesTxt(content) == ParseClassLines(SplitLines(content), 0)

\* classes.txt files written by hand: blank lines and padded names
ClassTexts ==
    { <<"d", "o", "g", NL, NL, "c", "a", "t">>,
      <<"d", "o", "g", NL, "c", "a", "t">>,
      <<NL, "d", "o", "g">>,
      <<"d", "o", "g", NL>>,
      <<SP, "d", "o", "g", SP, NL, SP, NL, "c", "a", "t">>,
      <<SP, NL>>,
      <<>> }

GenerateClassesTxt ==
    /\ codec.phase = "classes"
    /\ codec' = [codec EXCEPT !.phase = "classesTxt",
                              !.content = generateClassesTxt(codec.classes)]
    /\ lastOp' = [op |-> "generateClassesTxt"]
    /\ UNCHANGED <<storeVars, canvasVars, sideVars, outbox, stagePos>>

InitClasses ==
    /\ InitProject
    /\ InitShown
    /\ InitOffline
    /\ viewport = DefaultViewport
    /\ codec \in { [phase |-> "classes", classes |-> cls, content |-> <<>>] : cls \in ClassLists }
                 \cup { [phase |-> "classesTxt", classes |-> <<>>, content |-> t] : t \in ClassTexts }

ParseClassesTxt ==
    /\ codec.phase = "classesTxt"
    /\ codec' = [phase |-> "parsedClasses", classes |-> codec.classes,
                 content |-> codec.content, parsed |-> parseClassesTxt(codec.content)]
    /\ lastOp' = [op |-> "parseClassesTxt"]
    /\ UNCHANGED <<storeVars, canvasVars, sideVars, outbox, stagePos>>

NextClasses == GenerateClassesTxt \/ ParseClassesTxt

SpecClasses == InitClasses /\ [][NextClasses]_vars

\* the classes [{id: 0, name: 'dog'}, {id: 2, name: 'cat'}]
ExampleClasses ==
    << [id |-> 0, name |-> <<"d", "o", "g">>], [id |-> 2, name |-> <<"c", "a", "t">>] >>

\* C30: generateClassesTxt puts the name of the class with id k on line k
\* (counted from 0) and an empty line for every id up to the largest that no
\* class has, maxId + 1 lines in all; the classes dog (0) and cat (2) give the
\* three lines 'dog', '', 'cat'.
C30_ClassesTxtLines ==
    (codec.phase = "classesTxt" /\ codec.classes # <<>>) =>
        LET cls   == codec.classes
            lines == SplitLines(codec.content)
            maxId == MaxOfIds(cls)
        IN  /\ Len(lines) = maxId + 1
            /\ \A k \in 0..maxId :
                  IF \E i \in 1..Len(cls) : cls[i].id = k
                  THEN \E i \in 1..Len(cls) : cls[i].id = k /\ lines[k + 1] = cls[i].name
                  ELSE lines[k + 1] = <<>>
            /\ cls = ExampleClasses =>
                  lines = << <<"d", "o", "g">>, <<>>, <<"c", "a", "t">> >>

\* C30 witness: the example's classes came out as 'dog', an empty line, 'cat'
C30_Witness ==
    /\ codec.phase = "classesTxt"
    /\ codec.classes = ExampleClasses
    /\ codec.content = <<"d", "o", "g", NL, NL, "c", "a", "t">>

\* the text 'dog', '', 'cat'
ExampleClassesTxt == <<"d", "o", "g", NL, NL, "c", "a", "t">>

ParsedClasses == codec.phase = "parsedClasses"

\* C31 as stated: parseClassesTxt gives the N non-empty lines the ids 0..N-1
\* in file order, blank lines not counting: 'dog', '', 'cat' parses to
\* 0:dog, 1:cat.
C31_SequentialIds ==
    ParsedClasses =>
        /\ \A k \in 1..Len(codec.parsed) : codec.parsed[k].id = k - 1
        /\ codec.content = ExampleClassesTxt =>
              codec.parsed = << [id |-> 0, name |-> <<"d", "o", "g">>],
                                [id |-> 1, name |-> <<"c", "a", "t">>] >>

\* C31 amended: parseClassesTxt gives every non-blank line, trimmed, the
\* number of its line (counted from 0) as id, in file order, and no class
\* for a blank line: 'dog', '', 'cat' parses to 0:dog, 2:cat.
C31_LineNumberIds ==
    ParsedClasses =>
        LET lines  == SplitLines(codec.content)
            parsed == codec.parsed
        IN  /\ \A k \in 1..Len(parsed) :
                  /\ parsed[k].id \in 0..(Len(lines) - 1)
                  /\ parsed[k].name = Trim(lines[parsed[k].id + 1])
                  /\ parsed[k].name # <<>>
            /\ \A k \in 1..(Len(parsed) - 1) : parsed[k].id < parsed[k + 1].id
            /\ \A index \in 0..(Len(lines) - 1) :
                  Trim(lines[index + 1]) # <<>> =>
                      \E k \in 1..Len(parsed) : parsed[k].id = index
            /\ codec.content = ExampleClassesTxt =>
                  parsed = << [id |-> 0, name |-> <<"d", "o", "g">>],
                              [id |-> 2, name |-> <<"c", "a", "t">>] >>

\* C31 witness: 'dog', '', 'cat' was parsed and cat got the id 2
C31_Witness ==
    /\ ParsedClasses
    /\ codec.content = ExampleClassesTxt
    /\ Len(codec.parsed) = 2
    /\ codec.parsed[2] = [id |-> 2, name |-> <<"c", "a", "t">>]

-----------------------------------------------------------------------------
(***************************************************************************)
(* utils: rectsIntersect and calculateIntersectionArea (SpecGeom).         *)
(***************************************************************************)
\* rectsIntersect(rect1, rect2)
rectsIntersect(rect1, rect2) ==
    ~ \/ RLt(RAdd(rect1.x, rect1.w), rect2.x)
      \/ RLt(RAdd(rect2.x, rect2.w), rect1.x)
      \/ RLt(RAdd(rect1.y, rect1.h), rect2.y)
      \/ RLt(RAdd(rect2.y, rect2.h), rect1.y)

\* calculateIntersectionArea(rect1, rect2)
calculateIntersectionArea(rect1, rect2) ==
    IF ~rectsIntersect(rect1, rect2) THEN I(0)
    ELSE LET left   == MathMax(rect1.x, rect2.x)
             right  == MathMin(RAdd(rect1.x, rect1.w), RAdd(rect2.x, rect2.w))
             top    == MathMax(rect1.y, rect2.y)
             bottom == MathMin(RAdd(rect1.y, rect1.h), RAdd(rect2.y, rect2.h))
         IN  RMul(RSub(right, left), RSub(bottom, top))

\* positions and sizes of the rectangles handed to the function: sizes
\* negative, zero and positive
RectOrigins == { I(0), I(2) }
RectSizes   == { I(-1), I(0), I(1), I(4) }

Rects == { [x |-> x, y |-> y, w |-> w, h |-> h] :
             x \in RectOrigins, y \in RectOrigins, w \in RectSizes, h \in RectSizes }

CalculateIntersectionArea ==
    /\ codec.phase = "rects"
    /\ codec' = [codec EXCEPT !.phase = "area",
                              !.area = calculateIntersectionArea(codec.rect1, codec.rect2)]
    /\ lastOp' = [op |-> "calculateIntersectionArea"]
    /\ UNCHANGED <<storeVars, canvasVars, sideVars, outbox, stagePos>>

InitGeom ==
    /\ InitProject
    /\ InitShown
    /\ InitOffline
    /\ viewport = DefaultViewport
    /\ codec \in { [phase |-> "rects", rect1 |-> r1, rect2 |-> r2, area |-> I(0)] :
                      r1 \in Rects, r2 \in Rects }

NextGeom == CalculateIntersectionArea

SpecGeom == InitGeom /\ [][NextGeom]_vars

\* a rectangle of zero or negative width or height
Degenerate(rect) == RLe(rect.w, I(0)) \/ RLe(rect.h, I(0))

\* C32: calculateIntersectionArea returns 0 whenever one of the two
\* rectangles has a zero or negative width or height, wherever they lie.
C32_DegenerateAreaZero ==
    (codec.phase = "area" /\ (Degenerate(codec.rect1) \/ Degenerate(codec.rect2)))
        => codec.area = I(0)

-----------------------------------------------------------------------------
(***************************************************************************)
(* lib/split.ts: splitDataset (SpecSplit).                                 *)
(***************************************************************************)
MaxSplitImages == 4

\* the percentages typed into the export dialog's number fields
SplitPercents == { -50, 0, 20, 30, 50, 70, 100 }

SplitMethods == { "random", "sequential" }

\* Math.round((percent / 100) * totalImages): the nearest integer, the upper
\* one on a tie.  percent / 100 is a double: where it is not exact (percent
\* not a multiple of 25) a tie of the real product may fall on either side.
RoundedShare(percent, totalImages) ==
    LET twice == 2 * percent * totalImages
        up    == (twice + 100) \div 200
    IN  IF twice % 200 = 100 /\ percent % 25 # 0 THEN { up - 1, up } ELSE { up }

\* Array.prototype.slice(start, end): negative indices count from the end
SliceIndex(k, len) == IF k < 0 THEN (IF len + k < 0 THEN 0 ELSE len + k)
                      ELSE IF k > len THEN len ELSE k

slice(arr, start, end) ==
    SubSeq(arr, SliceIndex(start, Len(arr)) + 1, SliceIndex(end, Len(arr)))

\* the orders the Fisher-Yates loop can leave the images in
Shuffles(imgs) ==
    { [k \in 1..Len(imgs) |-> imgs[f[k]]] :
        f \in { g \in [1..Len(imgs) -> 1..Len(imgs)] :
                  \A a, b \in 1..Len(imgs) : a # b => g[a] # g[b] } }

\* the parts cut at trainCount and trainCount + valCount
SplitAt(shuffledImages, trainCount, valCount) ==
    [ train |-> slice(shuffledImages, 0, trainCount),
      val   |-> slice(shuffledImages, trainCount, trainCount + valCount),
      test  |-> slice(shuffledImages, trainCount + valCount, Len(shuffledImages)) ]

\* splitDataset(images, options): the set of its possible outcomes
splitDataset(imgs, options) ==
    IF options.trainSplit + options.valSplit + options.testSplit # 100
    THEN { [threw |-> TRUE] }
    ELSE IF Len(imgs) = 0
    THEN { [threw |-> FALSE, train |-> <<>>, val |-> <<>>, test |-> <<>>] }
    ELSE { [threw |-> FALSE, train |-> parts.train, val |-> parts.val, test |-> parts.test] :
             parts \in { SplitAt(sh, tc, vc) :
                           sh \in (IF options.splitMethod = "random" THEN Shuffles(imgs) ELSE {imgs}),
                           tc \in RoundedShare(options.trainSplit, Len(imgs)),
                           vc \in RoundedShare(options.valSplit, Len(imgs)) } }

SplitInputsUpTo(maxImages) ==
    { [phase |-> "images",
       images |-> [k \in 1..n |-> k],
       options |-> [trainSplit |-> t, valSplit |-> v, testSplit |-> e, splitMethod |-> m],
       result |-> [threw |-> FALSE]] :
        n \in 0..maxImages, t \in SplitPercents, v \in SplitPercents,
        e \in SplitPercents, m \in SplitMethods }

SplitDataset ==
    /\ codec.phase = "images"
    /\ \E r \in splitDataset(codec.images, codec.options) :
          codec' = [codec EXCEPT !.phase = "split", !.result = r]
    /\ lastOp' = [op |-> "splitDataset"]
    /\ UNCHANGED <<storeVars, canvasVars, sideVars, outbox, stagePos>>

InitSplit ==
    /\ InitProject
    /\ InitShown
    /\ InitOffline
    /\ viewport = DefaultViewport
    /\ codec \in SplitInputsUpTo(MaxSplitImages)

NextSplit == SplitDataset

SpecSplit == InitSplit /\ [][NextSplit]_vars

SumsTo100 == codec.options.trainSplit + codec.options.valSplit + codec.options.testSplit = 100

\* the number of places image i takes in list q
Occurrences(q, i) == Cardinality({ k \in 1..Len(q) : q[k] = i })

\* every image of the input is in exactly one of train, val and test, once
ExactlyOnce(r) ==
    \A k \in 1..Len(codec.images) :
        Occurrences(r.train, codec.images[k]) + Occurrences(r.val, codec.images[k])
            + Occurrences(r.test, codec.images[k]) = 1

SplitContract ==
    /\ SumsTo100 =>
          /\ ~codec.result.threw
          /\ ExactlyOnce(codec.result)
          /\ codec.options.splitMethod = "sequential" =>
                codec.result.train \o codec.result.val \o codec.result.test = codec.images
    /\ ~SumsTo100 => codec.result.threw

\* C33: for percentages summing to 100 splitDataset puts every image in
\* exactly one of train, val and test, and with the sequential method train,
\* val, test in a row are the input; percentages not summing to 100 raise an
\* error and no split is returned.
C33_SplitIsPartition == codec.phase = "split" => SplitContract

\* the same for percentages between 0 and 100 only
SplitPartitionWithinRange ==
    (/\ codec.phase = "split"
     /\ \A p \in {codec.options.trainSplit, codec.options.valSplit, codec.options.testSplit} :
           p \in 0..100)
        => SplitContract

-----------------------------------------------------------------------------
(***************************************************************************)
(* The selection and the boxes of the store (SpecStore).                   *)
(***************************************************************************)
\* C34: selectedBBoxId is null or the id of a box that is in the store and
\* belongs to the current image, whatever sequence of selections, removeBBox,
\* removeClass, removeImage and setCurrentImage led to the state.
C34_SelectionExists ==
    \/ toolState.selectedBBoxId = NoBBox
    \/ \E k \in 1..Len(bboxes) :
          /\ bboxes[k].id = toolState.selectedBBoxId
          /\ bboxes[k].imageId = currentImageId

-----------------------------------------------------------------------------
(***************************************************************************)
(* The unsaved-changes flag across a save in flight (SpecSave).            *)
(***************************************************************************)
\* a save ends with the server's ok
SavedOk == lastOp'.op = "saveDone" /\ lastOp'.ok

\* C35: when a save completes and leaves hasUnsavedChanges false, the
\* project in the store is the project that save persisted: what was changed
\* while the save was in flight is still flagged as unsaved.
C35_FlagClearedOnlyWhenSaved ==
    [][(SavedOk /\ ~hasUnsavedChanges') => Project' = save[lastOp'.save].project]_vars

-----------------------------------------------------------------------------
(***************************************************************************)
(* isSaving across overlapping saves (SpecSaving): the auto-save interval, *)
(* removeImage and addImagesFromData call saveToIndexedDB without looking  *)
(* at isSaving, so a second call can start during the awaits of the first. *)
(***************************************************************************)
\* the most saveToIndexedDB calls in flight at once in SpecSaving
MaxOverlap == 2

\* saveProjectToIDB rejects: the catch logs the error and the finally block
\* ends the call
SaveLocalFails(k) ==
    /\ save[k].phase = "started"
    /\ save' = RemoveAt(save, k)
    /\ isSaving' = FALSE
    /\ lastOp' = [op |-> "saveLocalFailed", save |-> k]
    /\ UNCHANGED <<storeVars, canvasVars, loadVars, container, stagePos, wheels,
                   online, outbox, serverAnnotations, fetch, projVars, codec>>

SaveOverlapping    == StartSave(MaxOverlap)
SaveLocalFailsStep == \E k \in 1..Len(save) : SaveLocalFails(k)

NextSaving ==
    \/ SaveOverlapping \/ SaveLocalStep \/ SaveLocalFailsStep \/ SavePostStep \/ SaveDoneStep
    \/ DrawBBox

SpecSaving == InitSave /\ [][NextSaving]_vars

\* C36: isSaving is true whenever a saveToIndexedDB call is in flight, also
\* when two calls overlap, and false once every call has ended.
C36_IsSavingWhileInFlight ==
    /\ save # <<>> => isSaving
    /\ save = <<>> => ~isSaving

-----------------------------------------------------------------------------
(***************************************************************************)
(* lib/store.ts: loadProject and fetchAndMergeServerImages (SpecMerge).    *)
(* loadProject puts a stored project into the store and asks the server    *)
(* for its images; the answer is merged by a set() that runs when the      *)
(* response arrives, whatever the current project is by then.  The         *)
(* loadAnnotationsFromServer call that follows finds no annotation on the  *)
(* server and no box in these projects, so it leaves the store as it is.   *)
(***************************************************************************)
\* the most /api/images requests in flight at once
MaxImageFetches == 3

ProjectIds == { "P", "Q" }

\* the projects as the browser's database holds them
StoredImages(pid) ==
    IF pid = "P" THEN InitialImages
    ELSE << [id |-> "img3", width |-> ImageWidth, height |-> ImageHeight, status |-> "new",
             cloudinary |-> FALSE] >>

\* data.images of GET /api/images?projectId=pid: the ids of the images the
\* server holds for the project
ServerImages(pid) == IF pid = "P" THEN << "srvP1", "srvP2" >> ELSE << "srvQ1" >>

\* the for loop of the merge: a server image is pushed unless an image with
\* its public_id is in the list already
RECURSIVE MergeServerImages(_, _)
MergeServerImages(imgs, serverImages) ==
    IF serverImages = <<>> THEN imgs
    ELSE LET si == Head(serverImages)
             existing == \E i \in 1..Len(imgs) : imgs[i].cloudinary /\ imgs[i].id = si
         IN  MergeServerImages(
                 IF existing THEN imgs
                 ELSE Append(imgs, [id |-> si, width |-> ImageWidth, height |-> ImageHeight,
                                    status |-> "new", cloudinary |-> TRUE]),
                 Tail(serverImages))

\* fetchAndMergeServerImages(pid) up to its first await: nothing is sent for
\* a project already in fetchedProjectImages, and offline the fetch throws
SendImageFetch(fetched, pid) ==
    IF pid \in fetched \/ ~online THEN imageFetches
    ELSE Append(imageFetches, [pid |-> pid])

\* fetchedProjectImages after that call: the project is entered, and taken
\* out again by the catch block when the fetch throws
FetchedAfterSend(fetched, pid) ==
    IF pid \in fetched \/ online THEN fetched \cup {pid} ELSE fetched \ {pid}

\* fetchAndMergeServerImages(currentProject.id), as the upload flow calls it
FetchAndMergeServerImages ==
    /\ Len(imageFetches) < MaxImageFetches
    /\ imageFetches' = SendImageFetch(fetchedProjectImages, currentProjectId)
    /\ fetchedProjectImages' = FetchedAfterSend(fetchedProjectImages, currentProjectId)
    /\ UNCHANGED currentProjectId
    /\ lastOp' = [op |-> "fetchAndMerge", pid |-> currentProjectId]
    /\ UNCHANGED <<storeVars, canvasVars, loadVars, container, stagePos, wheels,
                   online, outbox, serverAnnotations, fetch, save, isSaving, codec>>

\* loadProject(project): the project replaces the current one, its first
\* image becomes the current image, the project's entry in
\* fetchedProjectImages is cleared and its images are asked for
LoadProject(pid) ==
    /\ Len(imageFetches) < MaxImageFetches
    /\ currentProjectId' = pid
    /\ images' = StoredImages(pid)
    /\ bboxes' = <<>>
    /\ classes' = << [id |-> 0, name |-> "object"] >>
    /\ updatedAt' = 0
    /\ currentImageId' = StoredImages(pid)[1].id
    /\ imageFetches' = SendImageFetch(fetchedProjectImages \ {pid}, pid)
    /\ fetchedProjectImages' = FetchedAfterSend(fetchedProjectImages \ {pid}, pid)
    /\ lastOp' = [op |-> "loadProject", pid |-> pid]
    /\ UNCHANGED <<toolState, viewport, hasUnsavedChanges, nextBBoxId,
                   canvasVars, loadVars, container, stagePos, wheels,
                   online, outbox, serverAnnotations, fetch, save, isSaving, codec>>

\* the response of request k arrives: !res.ok clears the project's entry in
\* fetchedProjectImages; otherwise set() merges data.images into
\* state.currentProject
ImagesRespond(k, ok) ==
    LET pid == imageFetches[k].pid
    IN  /\ imageFetches' = RemoveAt(imageFetches, k)
        /\ fetchedProjectImages' = IF ok THEN fetchedProjectImages
                                   ELSE fetchedProjectImages \ {pid}
        /\ images' = IF ok THEN MergeServerImages(images, ServerImages(pid)) ELSE images
        /\ updatedAt' = IF ok THEN DateNow(updatedAt) ELSE updatedAt
        /\ lastOp' = [op |-> "imagesRespond", pid |-> pid, ok |-> ok]
        /\ UNCHANGED <<bboxes, classes, currentImageId, toolState, viewport,
                       hasUnsavedChanges, nextBBoxId, currentProjectId,
                       canvasVars, loadVars, container, stagePos, wheels,
                       online, outbox, serverAnnotations, fetch, save, isSaving, codec>>

LoadProjectStep   == \E pid \in ProjectIds : LoadProject(pid)
ImagesRespondStep == \E k \in 1..Len(imageFetches) : \E ok \in BOOLEAN : ImagesRespond(k, ok)

NextMerge == LoadProjectStep \/ FetchAndMergeServerImages \/ ImagesRespondStep

SpecMerge == InitSave /\ [][NextMerge]_vars

\* C37: the images a fetchAndMergeServerImages request for project P returns
\* are merged only into project P: when the response arrives while another
\* project is the current one, that project's image list is left unchanged.
C37_MergedOnlyIntoOwnProject ==
    [][(lastOp'.op = "imagesRespond" /\ lastOp'.pid # currentProjectId)
          => images' = images]_vars

-----------------------------------------------------------------------------
(***************************************************************************)
(* The class of a drawn box across projects (SpecProject): the class       *)
(* panel, the digit keys and the draw gesture, with createProject and      *)
(* loadProject replacing the project under them.  The browser is offline,  *)
(* so the fetches of loadProject throw and are logged.                     *)
(***************************************************************************)
\* createProject(name): a project with no image and the class `object`; the
\* tool state is reset.  The saveToIndexedDB of its timer is a task of its
\* own (SaveToIndexedDB of SpecSave) and changes neither classes nor tools.
CreateProject ==
    /\ currentProjectId' = "N"
    /\ images' = <<>>
    /\ bboxes' = <<>>
    /\ classes' = << [id |-> 0, name |-> "object"] >>
    /\ updatedAt' = DateNow(updatedAt)
    /\ currentImageId' = NoImage
    /\ toolState' = defaultToolState
    /\ lastOp' = [op |-> "createProject"]
    /\ UNCHANGED <<viewport, hasUnsavedChanges, nextBBoxId, fetchedProjectImages, imageFetches,
                   canvasVars, loadVars, container, stagePos, wheels,
                   online, outbox, serverAnnotations, fetch, save, isSaving, codec>>

\* the class panel's delete button, disabled while the list holds one class
HandleDeleteClass == \E c \in ClassIds : Len(classes) # 1 /\ RemoveClass(c)

\* a digit key pressed on the page
DigitKeyDown == \E key \in { "1", "2", "9" } : HandleKeyDown(key, "body", FALSE)

NextProject ==
    \/ CreateProject \/ LoadProjectStep
    \/ AddClassStep \/ HandleDeleteClass \/ ReorderClassesStep \/ DigitKeyDown
    \/ DrawBBox

SpecProject == InitStore /\ [][NextProject]_vars

\* C38: every box a draw gesture commits has a classId that is the id of a
\* class in the current project's class list at commit time, after any
\* sequence of addClass, removeClass, reorderClasses, digit keys,
\* createProject and loadProject.
C38_DrawnClassExists ==
    [][lastOp'.op = "drawBBox" =>
          \E i \in 1..Len(classes') : classes'[i].id = bboxes'[Len(bboxes')].classId]_vars

-----------------------------------------------------------------------------
(***************************************************************************)
(* components/Toolbar.tsx: the zoom buttons (SpecZoom), next to the wheel  *)
(* zoom and the fit of img.onload.                                         *)
(***************************************************************************)
\* containers smaller than the image, in the proportion of a 400-pixel and a
\* 4000-pixel panel to an 8000-pixel photograph, and one that holds it
ZoomContainers ==
    { [width |-> 1, height |-> 1], [width |-> 10, height |-> 8], ContainerOf(9) }

\* Math.min(viewport.scale * 1.2, 5)
ZoomInScale(scale) == MathMin(RMul(scale, <<6, 5>>), I(5))

\* Math.max(viewport.scale / 1.2, 0.1)
ZoomOutScale(scale) == MathMax(RDiv(scale, <<6, 5>>), <<1, 10>>)

\* setViewport({ scale: newScale }) of a toolbar button
ZoomClick(op, newScale) ==
    /\ wheels < MaxWheel
    /\ wheels' = wheels + 1
    /\ viewport' = [viewport EXCEPT !.scale = newScale]
    /\ lastOp' = [op |-> op]
    /\ UNCHANGED <<images, bboxes, classes, currentImageId, toolState, hasUnsavedChanges,
                   updatedAt, nextBBoxId, canvasVars, loadVars, container, stagePos,
                   netVars, outbox, codec>>

HandleZoomIn  == ZoomClick("zoomIn", ZoomInScale(viewport.scale))
HandleZoomOut == ZoomClick("zoomOut", ZoomOutScale(viewport.scale))

\* the first image decoded and fitted in its container
InitZoom ==
    /\ InitProject
    /\ loads = << LoadOf("img1", "loaded") >>
    /\ konvaImage = 1
    /\ imageRef = 1
    /\ container \in ZoomContainers
    /\ viewport = FittedViewport(container, InitialImages[1])
    /\ stagePos = NoPoint
    /\ wheels = 0
    /\ InitOffline
    /\ codec = CodecIdle

NextZoom == HandleZoomIn \/ HandleZoomOut \/ Wheel

SpecZoom == InitZoom /\ [][NextZoom]_vars

-----------------------------------------------------------------------------
(***************************************************************************)
(* lib/split.ts: generateBalancedSplit (SpecBalanced).  An image is an id; *)
(* getBBoxesForImage gives the classes of its boxes, in the order in which *)
(* the Set of the class ids first holds them.                              *)
(***************************************************************************)
MaxBalancedImages == 3

\* the class ids of one image's boxes
BoxClassLists == { <<>>, <<0>>, <<1>>, <<0, 1>>, <<1, 0>> }

BalancedPercents == { 0, 50, 100 }

\* imagesByClass.get(classId).push(image), after set(classId, []) for a
\* class the Map does not hold yet
PushToClass(groups, classId, image) ==
    IF \E k \in 1..Len(groups) : groups[k].classId = classId
    THEN [k \in 1..Len(groups) |->
             IF groups[k].classId = classId
             THEN [groups[k] EXCEPT !.images = Append(@, image)] ELSE groups[k]]
    ELSE Append(groups, [classId |-> classId, images |-> <<image>>])

RECURSIVE PushToClasses(_, _, _)
PushToClasses(groups, classIds, image) ==
    IF classIds = <<>> THEN groups
    ELSE PushToClasses(PushToClass(groups, Head(classIds), image), Tail(classIds), image)

\* imagesByClass after images.forEach: the Map's entries in insertion order;
\* an image without boxes goes to the group -1
RECURSIVE ImagesByClass(_, _, _)
ImagesByClass(groups, imgs, classesOf) ==
    IF imgs = <<>> THEN groups
    ELSE ImagesByClass(
             PushToClasses(groups,
                           IF classesOf[Head(imgs)] = <<>> THEN << -1 >>
                           ELSE classesOf[Head(imgs)],
                           Head(imgs)),
             Tail(imgs), classesOf)

\* addUniqueImages(target, source)
RECURSIVE addUniqueImages(_, _)
addUniqueImages(target, source) ==
    IF source = <<>> THEN target
    ELSE addUniqueImages(
             IF \E k \in 1..Len(target) : target[k] = Head(source) THEN target
             ELSE Append(target, Head(source)),
             Tail(source))

\* imagesByClass.forEach from group k on: each group is split by
\* splitDataset and merged into allSplits; an error of splitDataset ends
\* the call
RECURSIVE SplitEachClass(_, _, _, _)
SplitEachClass(groups, k, options, allSplits) ==
    IF k > Len(groups) THEN { allSplits }
    ELSE UNION { IF classSplit.threw THEN { [threw |-> TRUE] }
                 ELSE SplitEachClass(groups, k + 1, options,
                          [threw |-> FALSE,
                           train |-> addUniqueImages(allSplits.train, classSplit.train),
                           val   |-> addUniqueImages(allSplits.val, classSplit.val),
                           test  |-> addUniqueImages(allSplits.test, classSplit.test)]) :
                 classSplit \in splitDataset(groups[k].images, options) }

\* generateBalancedSplit(images, getBBoxesForImage, options): the set of its
\* possible outcomes
generateBalancedSplit(imgs, classesOf, options) ==
    SplitEachClass(ImagesByClass(<<>>, imgs, classesOf), 1, options,
                   [threw |-> FALSE, train |-> <<>>, val |-> <<>>, test |-> <<>>])

BalancedInputsUpTo(maxImages) ==
    UNION { { [phase |-> "labeled",
               images |-> [k \in 1..n |-> k],
               classesOf |-> c,
               options |-> [trainSplit |-> t, valSplit |-> v, testSplit |-> e,
                            splitMethod |-> m],
               result |-> [threw |-> FALSE]] :
                c \in [1..n -> BoxClassLists], t \in BalancedPercents, v \in BalancedPercents,
                e \in BalancedPercents, m \in SplitMethods } : n \in 0..maxImages }

GenerateBalancedSplit ==
    /\ codec.phase = "labeled"
    /\ \E r \in generateBalancedSplit(codec.images, codec.classesOf, codec.options) :
          codec' = [codec EXCEPT !.phase = "balanced", !.result = r]
    /\ lastOp' = [op |-> "generateBalancedSplit"]
    /\ UNCHANGED <<storeVars, canvasVars, sideVars, outbox, stagePos>>

InitBalanced ==
    /\ InitProject
    /\ InitShown
    /\ InitOffline
    /\ viewport = DefaultViewport
    /\ codec \in BalancedInputsUpTo(MaxBalancedImages)

NextBalanced == GenerateBalancedSplit

SpecBalanced == InitBalanced /\ [][NextBalanced]_vars

\* the images of list q
ImagesOf(q) == { q[k] : k \in 1..Len(q) }

\* C40: generateBalancedSplit returns pairwise disjoint train, val and test
\* lists: no image is in more than one of them, also when it carries boxes
\* of several classes, and every input image is in at least one list.
C40_BalancedSplitDisjoint ==
    (codec.phase = "balanced" /\ ~codec.result.threw) =>
        /\ ImagesOf(codec.result.train) \cap ImagesOf(codec.result.val) = {}
        /\ ImagesOf(codec.result.train) \cap ImagesOf(codec.result.test) = {}
        /\ ImagesOf(codec.result.val) \cap ImagesOf(codec.result.test) = {}
        /\ ImagesOf(codec.images) \subseteq
              ImagesOf(codec.result.train) \cup ImagesOf(codec.result.val)
                 \cup ImagesOf(codec.result.test)

=============================================================================
